---- MODULE Spec2Model ----
EXTENDS Integers, Sequences, FiniteSets, TLC

\* Verification model of iziplay/anna-api: the record sink
\* (pkg/database), the sync orchestrator (pkg/sync, main loop) and the shard
\* processor (pkg/anna), the catalog pick, the on-demand downloader
\* (pkg/anna/epub.go) and the stats cache (pkg/database/stats.go).
\*
\* Text values that the code passes through sanitizeString are sequences of
\* one-character strings; NUL stands for the byte U+0000.

VARIABLES
    \* --- relational store (PostgreSQL tables) ---
    records,          \* anna_records: sanitized id -> parent row
    identifiers,      \* anna_record_identifiers: set of <<record, type, value>>
    classifications,  \* anna_record_classifications: set of <<record, type, value>>
    \* --- callers of UpsertRecordAndIdentifiers (one per shard worker) ---
    upc,              \* worker -> statement the call is at
    urec,             \* worker -> the *anna.Record of the call in flight
    uret,             \* worker -> what the worker's last call returned
    called,           \* inputs some call was made with
    repeated,         \* inputs a second call was made with
    ncalls,           \* number of calls made
    \* --- sync history store, torrent table, clock ---
    syncs,            \* anna_synchronizations: set of [Date, Base, Complete]
    torrents,         \* anna_torrents: btih -> catalog entry
    now,              \* wall clock, in hours
    \* --- main loop and Sync ---
    mpc,              \* where the orchestrator goroutine is
    sleepDuration,    \* main: the duration handed to time.Sleep
    wakeAt,           \* main: when that sleep is over
    lastSync,         \* Sync: the row GetLastSync returned
    picked,           \* Sync: t, the torrent GetLastMetadataTorrent returned
    serr,             \* what Sync returned to main
    env,              \* ANNA_DISABLE_SYNC, ANNA_KEEP_FILES
    \* --- swarm client and shard processor ---
    added,            \* magnet links added to the client and not dropped
    dataDir,          \* whether DataDir exists on disk
    files,            \* matchedFiles: shard indexes, ascending
    wst,              \* shard worker -> how its stream ended ("running" before)
    nrec,             \* shard worker -> recordCount
    results,          \* the FileResults appended so far
    \* --- progress registry and stats cache ---
    stats,            \* sync.SyncStats
    syncBase,         \* package variable syncBase
    cache,            \* database.cache.stats
    \* --- bookkeeping of the current and the previous attempt ---
    att,              \* the attempt in progress, or else the last one ended
    inSync,           \* number of Sync calls that have not returned
    \* --- one call of GetLastMetadataTorrent ---
    catalog,          \* the []TorrentsResponse it is given
    latest,           \* what it returned (NotCalled before)
    \* --- on-demand downloader, one (torrentName, outputFilename) ---
    storage,          \* EpubStorageDir: "ok", "unset" (empty) or "failing" (writes fail)
    epubFile,         \* content of outputFilename in the storage dir, or NoFile
    active,           \* activeDownloads[outputFilename]: a tracker, or NoTracker
    trk,              \* tracker -> [Status, BytesCompleted, subscribers]
    flight,           \* singleflight: the caller running fn for the key, or NoCaller
    cpc,              \* caller -> where its DownloadFile call is
    ctrk,             \* caller -> the tracker LoadOrStore gave it
    cjoin,            \* caller -> the caller whose flight it joined
    fnres,            \* caller -> what its run of fn is about to return
    cres,             \* caller -> what DownloadFile returned
    dlBytes,          \* targetFile.BytesCompleted() of the on-demand torrent
    dlLost,           \* pieces of it were removed from DataDir under the client
    ran,              \* callers whose call ran downloadFileInternal
    magnets,          \* number of client.AddMagnet calls made for the file
    peers,            \* caller -> calls in flight when it checked the disk
    cstart,           \* caller -> whether a sync attempt was running at that moment
    \* --- progress subscribers (SSE handlers) ---
    chans,            \* subscriber -> [buf, closed] of its channel
    spc,              \* subscriber -> "none", "subscribed", "left"
    got,              \* subscriber -> what it has read from the channel
    \* --- stats cache lock and the goroutines that use the cache ---
    muWriter,         \* cache.mu: the goroutine that owns the writer side, or NoProc
    muReaders,        \* cache.mu: the goroutines that hold a read lock
    ppc,              \* goroutine -> where its call is
    pop,              \* goroutine -> its current or last call: "get", "lazy", "force"
    pbuild,           \* goroutine -> the local stats of ComputeAndCacheStats
    pret,             \* goroutine -> what the call returned
    pq,               \* goroutine -> whether the call has queried the store
    \* --- callers of the read-only entry points ---
    dstatus,          \* what GetDownloadStatus returned to the handler ("none" before)
    \* --- progress registry as the handlers see it ---
    backing,          \* array -> the []FileProgress stored in it
    filesRef,         \* the array stats.Files points to, or NoArray (nil)
    snap,             \* the SyncStats value GetStats returned: fields and slice header
    snapSeen,         \* what that value read as when it was returned
    \* --- ISBN conversion ---
    isbnCode,         \* the identifier value a caller holds
    isbn13,           \* what To13(isbnCode) returned
    isbn10,           \* what To10(isbnCode) returned
    isbnBack,         \* what To10 returned for the result of To13
    \* --- row locks of the running child statements ---
    held,             \* worker -> the child rows its running statement has written
    todo,             \* worker -> the rows its running statement has still to write
    \* --- shard selection ---
    tfiles,           \* t.Files(): the files of the metadata torrent, in torrent order
    sel,              \* what the selection left: worker order, registry names, priorities
    \* --- one shard, line by line ---
    shardIn,          \* the decompressed stream: complete lines, a last fragment, how it ends
    spos,             \* the next line bufReader.ReadString returns
    sbusy,            \* processor.Record has been called and has not returned
    sinv,             \* the processor.Record calls so far, in call order
    scount,           \* recordCount
    sres,             \* the FileResult returned
    \* --- the download sampler of one sync ---
    orch,             \* where the sync is: workers running, processor returned, ended, a later sync
    wrun,             \* the shard workers that have not called wg.Done
    smpPc,            \* the sampler goroutine: at the select, inside Stats, returned
    doneClosed,       \* close(done) has run
    tickerC,          \* ticks waiting in ticker.C (it buffers one)
    nticks,           \* ticks the ticker has produced
    smpFile,          \* the file of matchedFiles updateProgress is at
    fileIndex,        \* what the lookup of annaProcessor.Stats found, -1 for nothing
    calledAt,         \* the positions of the sync at which the sampler called processor.Stats
    wroteAt,          \* the positions of the sync at which a sampler update changed the registry
    \* --- the registry lock ---
    rmu,              \* SyncStats.mu: the goroutine holding it for writing, those holding it for reading
    rpc,              \* goroutine -> where it is in its registry call
    qrun,             \* a database query of the stats recompute is running
    rsnap,            \* snapshot caller -> what GetStats returned to it
    \* --- one tracker, its lock and its channels ---
    tmu,              \* downloadTracker.mu: the goroutine holding it
    tsubs,            \* downloadTracker.subscribers
    tprogress,        \* downloadTracker.progress.Status
    fpc,              \* goroutine -> where it is in update, complete, subscribe or cleanup
    flocal,           \* execution -> the channels of its local subs it has still to serve
    fch,              \* subscriber -> its channel: events queued, closed
    fdrop,            \* subscriber -> an event was dropped because its channel was full
    fpanic,           \* the run-time panic a channel operation raised
    \* --- two downloads from one torrent ---
    hpc,              \* download -> where it is in DownloadFile
    hctx,             \* download -> its context is cancelled
    hcancelAt,        \* download -> where it was when its context was cancelled
    htorrent,         \* the torrent of the magnet in the client: added, metadata known
    hhandle,          \* download -> the handle AddMagnet gave it: none, live, dropped
    hbytes,           \* download -> BytesCompleted of its file
    hdisk,            \* download -> the file under its outputFilename in the storage dir
    hres,             \* download -> what downloadFileInternal returned
    hactive           \* download -> a tracker is registered under its outputFilename

dbVars == <<records, identifiers, classifications>>
sinkVars == <<upc, urec, uret, called, repeated, ncalls>>
syncVars == <<syncs, torrents, now, mpc, sleepDuration, wakeAt, lastSync, picked,
              serr, env, added, dataDir, files, wst, nrec, results, stats,
              syncBase, cache, att, inSync>>
syncRest == <<syncs, torrents, now, mpc, sleepDuration, wakeAt, lastSync, picked,
              serr, env, dataDir, files, wst, nrec, results, stats, syncBase,
              cache, att, inSync>>
pickVars == <<catalog, latest>>
callVars == <<storage, epubFile, active, flight, cpc, ctrk, cjoin, fnres, cres,
              dlBytes, dlLost, ran, magnets, peers, cstart>>
subVars == <<trk, chans, spc, got>>
epubVars == <<callVars, subVars>>
statVars == <<muWriter, muReaders, ppc, pop, pbuild, pret, pq>>
regVars == <<backing, filesRef, snap, snapSeen>>
isbnVars == <<isbnCode, isbn13, isbn10, isbnBack>>
lockVars == <<held, todo>>
selVars == <<tfiles, sel>>
shardVars == <<shardIn, spos, sbusy, sinv, scount, sres>>
smpVars == <<orch, wrun, smpPc, doneClosed, tickerC, nticks, smpFile, fileIndex, calledAt, wroteAt>>
rlockVars == <<rmu, rpc, qrun, rsnap>>
fanVars == <<tmu, tsubs, tprogress, fpc, flocal, fch, fdrop, fpanic>>
handleVars == <<hpc, hctx, hcancelAt, htorrent, hhandle, hbytes, hdisk, hres, hactive>>
tailVars == <<smpVars, rlockVars, fanVars, handleVars>>
auxVars == <<dstatus, regVars, isbnVars, lockVars, selVars, shardVars, tailVars>>
extVars == <<pickVars, epubVars, statVars, auxVars>>
vars == <<dbVars, sinkVars, syncVars, extVars>>

\* ------------------------------------------------------------------ bounds

NumWorkers == 2
MaxUpserts == 3

Workers == 1..NumWorkers

\* ------------------------------------------------------------------ on-demand download: values

\* Concurrent DownloadFile calls, and the length of the requested file in
\* pieces.
NumCallers == 2
FileLength == 1

\* make(chan DownloadProgressEvent, 10)
ChanCap == 10

Callers == 1..NumCallers
\* One progress subscriber: what a channel carries depends on the tracker and
\* on its own reader only.
Subscribers == {1}

NoFile == "NoFile"
NoTracker == 0
NoCaller == 0

\* The magnet link of the torrent that holds the requested file.
EpubMagnet == "epub"

DownloadProgressEvent(status, bytesCompleted) ==
    [Status |-> status, BytesCompleted |-> bytesCompleted]

\* newDownloadTracker(): status DOWNLOADING, no subscriber.
newDownloadTracker ==
    [Status |-> "DOWNLOADING", BytesCompleted |-> 0, subscribers |-> <<>>]

\* What a subscriber has read so far: nothing.
NoEvents == [first |-> "none", downloading |-> FALSE, downloaded |-> FALSE]

\* Goroutines that call GetCachedStats or ComputeAndCacheStats.
NumStatProcs == 3
StatProcs == 1..NumStatProcs
NoProc == 0
\* The orchestrator goroutine: EndSync is the only caller with force=true.
SyncProc == 1

\* The backing arrays of []FileProgress that are reachable at one time: the
\* one stats.Files points to and the one a snapshot points to.
Arrays == {1, 2}
NoArray == 0

\* ------------------------------------------------------------------ text

NUL == "NUL"

sanitizeString(s) == SelectSeq(s, LAMBDA c : c # NUL)

IsDigit(c) == c \in {"0", "1", "2", "3", "4", "5", "6", "7", "8", "9"}

DigitVal(c) ==
    CASE c = "0" -> 0 [] c = "1" -> 1 [] c = "2" -> 2 [] c = "3" -> 3
      [] c = "4" -> 4 [] c = "5" -> 5 [] c = "6" -> 6 [] c = "7" -> 7
      [] c = "8" -> 8 [] c = "9" -> 9

RECURSIVE DecimalValue(_)
DecimalValue(s) ==
    IF s = <<>> THEN 0
    ELSE 10 * DecimalValue(SubSeq(s, 1, Len(s) - 1)) + DigitVal(s[Len(s)])

\* strconv.Atoi with the error dropped (year, _ := ...): an optional sign and
\* decimal digits; anything else is a syntax error and yields 0.
Atoi(s) ==
    LET signed == s # <<>> /\ Head(s) \in {"+", "-"}
        body == IF signed THEN Tail(s) ELSE s
    IN  IF body = <<>> \/ \E i \in 1..Len(body) : ~IsDigit(body[i]) THEN 0
        ELSE IF signed /\ Head(s) = "-" THEN 0 - DecimalValue(body)
        ELSE DecimalValue(body)

\* ------------------------------------------------------------------ inputs

\* A nil *anna.Record.
NilRecord == [nil |-> TRUE]

AnnaRecord(id, ext, title, year, desc, idents, classes) ==
    [ID |-> id, ExtensionBest |-> ext, TitleBest |-> title,
     PublisherBest |-> <<"p">>, AuthorBest |-> <<"w">>, CoverURLBest |-> <<"u">>,
     YearBest |-> year, LanguageCodes |-> << <<"e">> >>,
     StrippedDescriptionBest |-> desc,
     IdentifiersUnified |-> idents, ClassificationsUnified |-> classes]

NoChildren == [t \in {} |-> <<>>]

\* map[string][]string with one key.
OneType(t, values) == [x \in {t} |-> values]

\* The records the shard lines decode to: two epubs of one id with different
\* children, an epub whose identifier list repeats a value, a non-epub, an epub
\* carrying NUL bytes, and nil.
Inputs ==
    { AnnaRecord(<<"a">>, "epub", <<"x">>, <<"7">>, <<"s">>,
                 OneType(<<"i">>, << <<"7">> >>), OneType(<<"t">>, << <<"8">> >>)),
      AnnaRecord(<<"a">>, "epub", <<"y">>, <<"x">>, <<>>,
                 OneType(<<"d">>, << <<"8">> >>), NoChildren),
      AnnaRecord(<<"b">>, "epub", <<"x">>, <<"-", "1">>, <<>>,
                 OneType(<<"i">>, << <<"7">>, <<"7">> >>), OneType(<<"t">>, << <<"8">> >>)),
      AnnaRecord(<<"c">>, "pdf", <<"x">>, <<"7">>, <<>>,
                 OneType(<<"i">>, << <<"7">> >>), NoChildren),
      AnnaRecord(<<"b", NUL>>, "epub", <<NUL, "x">>, <<"1", "9">>, <<NUL>>,
                 OneType(<<"i", NUL>>, << <<"9">> >>), NoChildren),
      NilRecord }

\* ------------------------------------------------------------------ record sink

\* The guard of UpsertRecordAndIdentifiers: nil and non-epub records are dropped.
IsDroppedNilOnly(r) == r = NilRecord
IsDropped(r) == r = NilRecord \/ r.ExtensionBest # "epub"

RecordID(r) == sanitizeString(r.ID)

\* The database.Record the function builds (created_at/updated_at left out).
BuildRecord(r) ==
    [Title |-> sanitizeString(r.TitleBest),
     Publisher |-> sanitizeString(r.PublisherBest),
     Author |-> sanitizeString(r.AuthorBest),
     CoverURL |-> sanitizeString(r.CoverURLBest),
     Year |-> Atoi(r.YearBest),
     Languages |-> [i \in 1..Len(r.LanguageCodes) |-> sanitizeString(r.LanguageCodes[i])],
     Description |-> IF r.StrippedDescriptionBest # <<>>
                     THEN sanitizeString(r.StrippedDescriptionBest) ELSE <<>>]

\* INSERT ... ON CONFLICT (id) DO UPDATE SET title, publisher, ... of one row.
ParentUpsertMergeLanguages(recs, r) ==
    [x \in DOMAIN recs \cup {RecordID(r)} |->
        IF x # RecordID(r) THEN recs[x]
        ELSE IF x \in DOMAIN recs
             THEN [BuildRecord(r) EXCEPT !.Languages = recs[x].Languages \o @]
             ELSE BuildRecord(r)]
\* The same statement with description left alone when the new one is empty.
ParentUpsertKeepDescription(recs, r) ==
    [x \in DOMAIN recs \cup {RecordID(r)} |->
        IF x # RecordID(r) THEN recs[x]
        ELSE IF x \in DOMAIN recs /\ BuildRecord(r).Description = <<>>
             THEN [BuildRecord(r) EXCEPT !.Description = recs[x].Description]
             ELSE BuildRecord(r)]
ParentUpsert(recs, r) ==
    [x \in DOMAIN recs \cup {RecordID(r)} |->
        IF x = RecordID(r) THEN BuildRecord(r) ELSE recs[x]]

\* The rows of one batch: one per (type, position in the type's value list).
BatchSlots(m) == UNION {{<<t, i>> : i \in 1..Len(m[t])} : t \in DOMAIN m}

BatchRows(r, m) ==
    {<<RecordID(r), sanitizeString(s[1]), sanitizeString(m[s[1]][s[2]])>> : s \in BatchSlots(m)}

\* PostgreSQL rejects a multi-row INSERT ... ON CONFLICT DO UPDATE that proposes
\* the same conflict key twice ("command cannot affect row a second time",
\* SQLSTATE 21000); the statement then writes nothing.
BatchRejected(r, m) == Cardinality(BatchRows(r, m)) < Cardinality(BatchSlots(m))

\* INSERT ... ON CONFLICT (record, type, value) DO UPDATE SET updated_at.
BatchUpsert(table, r, m) == table \cup BatchRows(r, m)

DB == [records |-> records, identifiers |-> identifiers,
       classifications |-> classifications]

\* One whole call on the store d, run without interleaving: the store it leaves
\* and the error it returns.
UpsertRecordAndIdentifiers(d, r) ==
    IF IsDropped(r) THEN [db |-> d, err |-> "ok"]
    ELSE
    LET d1 == [d EXCEPT !.records = ParentUpsert(d.records, r)]
        d2 == [d1 EXCEPT !.identifiers = BatchUpsert(d1.identifiers, r, r.IdentifiersUnified)]
        d3 == [d2 EXCEPT !.classifications =
                  BatchUpsert(d2.classifications, r, r.ClassificationsUnified)]
    IN  IF BatchRejected(r, r.IdentifiersUnified)
          THEN [db |-> d1, err |-> "identifiers"]
        ELSE IF BatchRejected(r, r.ClassificationsUnified)
          THEN [db |-> d2, err |-> "classifications"]
        ELSE [db |-> d3, err |-> "ok"]

\* A call by worker w: the guard, then the parent statement.
UpsertBegin(w, r) ==
    /\ upc[w] = "idle"
    /\ ncalls < MaxUpserts
    /\ ncalls' = ncalls + 1
    /\ called' = called \cup {r}
    /\ repeated' = IF r \in called THEN repeated \cup {r} ELSE repeated
    /\ IF IsDropped(r)
       THEN /\ uret' = [uret EXCEPT ![w] = "ok"]
            /\ UNCHANGED <<records, upc, urec>>
       ELSE /\ records' = ParentUpsert(records, r)
            /\ upc' = [upc EXCEPT ![w] = "identifiers"]
            /\ urec' = [urec EXCEPT ![w] = r]
            /\ uret' = [uret EXCEPT ![w] = "none"]
    /\ UNCHANGED <<identifiers, classifications>>

\* The identifier batch: skipped when empty, an error return when rejected.
UpsertIdentifiers(w) ==
    /\ upc[w] = "identifiers"
    /\ LET r == urec[w]
           m == r.IdentifiersUnified
       IN  IF BatchSlots(m) # {} /\ BatchRejected(r, m)
           THEN /\ upc' = [upc EXCEPT ![w] = "idle"]
                /\ uret' = [uret EXCEPT ![w] = "identifiers"]
                /\ urec' = [urec EXCEPT ![w] = NilRecord]
                /\ UNCHANGED identifiers
           ELSE /\ identifiers' = BatchUpsert(identifiers, r, m)
                /\ upc' = [upc EXCEPT ![w] = "classifications"]
                /\ UNCHANGED <<uret, urec>>
    /\ UNCHANGED <<records, classifications, called, repeated, ncalls>>

\* The classification batch, then the return.
UpsertClassifications(w) ==
    /\ upc[w] = "classifications"
    /\ LET r == urec[w]
           m == r.ClassificationsUnified
       IN  IF BatchSlots(m) # {} /\ BatchRejected(r, m)
           THEN /\ uret' = [uret EXCEPT ![w] = "classifications"]
                /\ UNCHANGED classifications
           ELSE /\ classifications' = BatchUpsert(classifications, r, m)
                /\ uret' = [uret EXCEPT ![w] = "ok"]
    /\ upc' = [upc EXCEPT ![w] = "idle"]
    /\ urec' = [urec EXCEPT ![w] = NilRecord]
    /\ UNCHANGED <<records, identifiers, called, repeated, ncalls>>

\* A statement that fails in the store (connection lost, context cancelled):
\* it writes nothing and the call returns the wrapped error.
FailParentContinue(w, r) ==
    /\ upc[w] = "idle"
    /\ ncalls < MaxUpserts
    /\ ~IsDropped(r)
    /\ ncalls' = ncalls + 1
    /\ called' = called \cup {r}
    /\ repeated' = IF r \in called THEN repeated \cup {r} ELSE repeated
    /\ upc' = [upc EXCEPT ![w] = "identifiers"]
    /\ urec' = [urec EXCEPT ![w] = r]
    /\ uret' = [uret EXCEPT ![w] = "record"]
    /\ UNCHANGED dbVars
FailParent(w, r) ==
    /\ upc[w] = "idle"
    /\ ncalls < MaxUpserts
    /\ ~IsDropped(r)
    /\ ncalls' = ncalls + 1
    /\ called' = called \cup {r}
    /\ repeated' = IF r \in called THEN repeated \cup {r} ELSE repeated
    /\ uret' = [uret EXCEPT ![w] = "record"]
    /\ UNCHANGED <<dbVars, upc, urec>>

FailIdentifiers(w) ==
    /\ upc[w] = "identifiers"
    /\ BatchSlots(urec[w].IdentifiersUnified) # {}
    /\ upc' = [upc EXCEPT ![w] = "idle"]
    /\ uret' = [uret EXCEPT ![w] = "identifiers"]
    /\ urec' = [urec EXCEPT ![w] = NilRecord]
    /\ UNCHANGED <<dbVars, called, repeated, ncalls>>

FailClassifications(w) ==
    /\ upc[w] = "classifications"
    /\ BatchSlots(urec[w].ClassificationsUnified) # {}
    /\ upc' = [upc EXCEPT ![w] = "idle"]
    /\ uret' = [uret EXCEPT ![w] = "classifications"]
    /\ urec' = [urec EXCEPT ![w] = NilRecord]
    /\ UNCHANGED <<dbVars, called, repeated, ncalls>>

\* ------------------------------------------------------------------ clock

\* 24 * time.Hour, the cadence of the main loop.
Day == 24

\* The clock advances in steps of half a day, up to MaxTime.
TickHours == Day \div 2
MaxTime == 48

\* The most shard files a metadata torrent holds, and the most lines the
\* workers of one attempt decode between them.
MaxShards == 2
MaxSyncRecords == 1

\* ------------------------------------------------------------------ catalog

CharCode(c) == DigitVal(c)

\* Go's string comparison a > b, byte by byte.
StringGreater(a, b) ==
    \E k \in 1..Len(a) :
        /\ \A j \in 1..(k - 1) : j <= Len(b) /\ a[j] = b[j]
        /\ (k > Len(b) \/ (k <= Len(b) /\ CharCode(a[k]) > CharCode(b[k])))

TorrentsResponse(name, top, group, obsolete, addedAt) ==
    [DisplayName |-> name, BTIH |-> name, MagnetLink |-> name,
     TopLevelGroupName |-> top, GroupName |-> group, Obsolete |-> obsolete,
     AddedToTorrentsListAt |-> addedAt]

MetaV1 == TorrentsResponse("v1", "other_aa", "aa_derived_mirror_metadata", FALSE, <<"1">>)
MetaV2 == TorrentsResponse("v2", "other_aa", "aa_derived_mirror_metadata", FALSE, <<"2">>)
MetaOld == TorrentsResponse("v0", "other_aa", "aa_derived_mirror_metadata", TRUE, <<"9">>)
OtherGroup == TorrentsResponse("zlib", "zlib", "zlib", FALSE, <<"9">>)

\* What torrents.json may hold when an attempt fetches it.
Catalogs == { <<>>, <<OtherGroup, MetaOld>>, <<MetaOld, MetaV1, OtherGroup>>,
              <<MetaV2, MetaOld, MetaV1, OtherGroup>> }

\* A nil *TorrentsResponse; the result of a call not made yet.
NoTorrent == [nil |-> TRUE]
NotCalled == [unset |-> TRUE]

\* The loop of GetLastMetadataTorrent from entry i on (the range variable is
\* per-iteration, so &t keeps the entry it was taken from).
RECURSIVE LastMetadataFrom(_, _, _, _)
LastMetadataFrom(ts, i, latestTorrent, latestDate) ==
    IF i > Len(ts) THEN latestTorrent
    ELSE IF /\ ts[i].GroupName = "aa_derived_mirror_metadata"
            /\ ts[i].TopLevelGroupName = "other_aa"
            /\ ~ts[i].Obsolete
            /\ StringGreater(ts[i].AddedToTorrentsListAt, latestDate)
         THEN LastMetadataFrom(ts, i + 1, ts[i], ts[i].AddedToTorrentsListAt)
         ELSE LastMetadataFrom(ts, i + 1, latestTorrent, latestDate)

GetLastMetadataTorrent(ts) == LastMetadataFrom(ts, 1, NoTorrent, <<>>)

\* INSERT ... ON CONFLICT (btih) DO UPDATE of the whole catalog.
UpsertTorrents(table, ts) ==
    [b \in DOMAIN table \cup {ts[i].BTIH : i \in 1..Len(ts)} |->
        IF \E i \in 1..Len(ts) : ts[i].BTIH = b
        THEN ts[CHOOSE i \in 1..Len(ts) :
                    ts[i].BTIH = b /\ \A j \in (i + 1)..Len(ts) : ts[j].BTIH # b]
        ELSE table[b]]

\* ------------------------------------------------------------------ sync history

\* A nil *database.Synchronization, and the zero row.
NilSync == [nil |-> TRUE]
ZeroSync == [Date |-> 0 - 1000000, Base |-> "", Complete |-> FALSE]

\* ORDER BY date DESC LIMIT 1.
LatestRow(rows) == CHOOSE r \in rows : \A q \in rows : q.Date <= r.Date
LatestCompleteRow(rows) == LatestRow({r \in rows : r.Complete})

\* What GetLastSync may return: the latest row; on an empty table First(&sync)
\* reports ErrRecordNotFound, which is swallowed, and sync is then nil or a
\* freshly allocated zero row, depending on the ORM.
GetLastSyncOfComplete(rows) ==
    IF {r \in rows : r.Complete} = {} THEN {NilSync, ZeroSync}
    ELSE {LatestCompleteRow(rows)}
GetLastSync(rows) ==
    IF rows = {} THEN {NilSync, ZeroSync} ELSE {LatestRow(rows)}

\* ------------------------------------------------------------------ stats cache

NoStats == [nil |-> TRUE]

\* &CachedStats{}: every field at its zero value (LastSync "", no counts).
NewStats == [LastSync |-> ZeroSync.Date, Base |-> "", Count |-> 0,
             Identifiers |-> <<>>, Classifications |-> <<>>]

TypeCounts(table) ==
    [t \in {row[2] : row \in table} |-> Cardinality({row \in table : row[2] = t})]

\* ComputeAndCacheStats(true) run to its end: what cache.stats holds after it.
ComputeAndCacheStats(old, rows, d) ==
    IF {r \in rows : r.Complete} = {} THEN old
    ELSE [LastSync |-> LatestCompleteRow(rows).Date,
          Base |-> LatestCompleteRow(rows).Base,
          Count |-> Cardinality(DOMAIN d.records),
          Identifiers |-> TypeCounts(d.identifiers),
          Classifications |-> TypeCounts(d.classifications)]

\* ------------------------------------------------------------------ progress registry

IdleStats == [IsRunning |-> FALSE, Base |-> "", Files |-> <<>>]

StartSync(base, paths) ==
    [IsRunning |-> TRUE, Base |-> base,
     Files |-> [i \in 1..Len(paths) |->
                   [Name |-> paths[i], Downloaded |-> 0, Processed |-> 0]]]

\* annaProcessor.Stats for both kinds at 100%: the first entry of that name.
ReportDone(st, path) ==
    IF \E i \in 1..Len(st.Files) : st.Files[i].Name = path
    THEN LET k == CHOOSE i \in 1..Len(st.Files) :
                      st.Files[i].Name = path
                      /\ \A j \in 1..(i - 1) : st.Files[j].Name # path
         IN  [st EXCEPT !.Files[k].Downloaded = 100, !.Files[k].Processed = 100]
    ELSE st

\* SyncStats.EndSync: reset the registry, then the forced stats recompute,
\* which reads the store as the caller left it.
EndSync(rows) ==
    /\ stats' = IdleStats
    /\ cache' = ComputeAndCacheStats(cache, rows, DB)

\* ------------------------------------------------------------------ main loop

\* time.Until(lastSync.Date.Add(24h)), clamped at 0; 0 when lastSync is nil.
SleepFor(last) ==
    IF last = NilSync THEN 0
    ELSE IF last.Date + Day - now <= 0 THEN 0 ELSE last.Date + Day - now

\* main, lines 133-153: read the last row, compute the sleep, start sleeping.
MainLoopFromComplete ==
    /\ mpc = "loop"
    /\ \E last \in GetLastSyncOfComplete(syncs) :
          /\ sleepDuration' = SleepFor(last)
          /\ wakeAt' = now + SleepFor(last)
    /\ mpc' = "sleep"
    /\ UNCHANGED <<dbVars, sinkVars, syncs, torrents, now, lastSync, picked, serr,
                   env, added, dataDir, files, wst, nrec, results, stats, syncBase,
                   cache, att, inSync>>
MainLoop ==
    /\ mpc = "loop"
    /\ \E last \in GetLastSync(syncs) :
          /\ sleepDuration' = SleepFor(last)
          /\ wakeAt' = now + SleepFor(last)
    /\ mpc' = "sleep"
    /\ UNCHANGED <<dbVars, sinkVars, syncs, torrents, now, lastSync, picked, serr,
                   env, added, dataDir, files, wst, nrec, results, stats, syncBase,
                   cache, att, inSync>>

\* time.Sleep returns once the duration has passed; main then calls Sync,
\* which reads the last row again.
MainSleep ==
    /\ mpc = "sleep"
    /\ now >= wakeAt
    /\ mpc' = "sync"
    /\ inSync' = inSync + 1
    /\ \E last \in GetLastSync(syncs) : lastSync' = last
    /\ att' = [outcome |-> "running", endSyncs |-> 0, recomputes |-> 0, storeError |-> FALSE]
    /\ sleepDuration' = 0
    /\ wakeAt' = 0
    /\ UNCHANGED <<dbVars, sinkVars, syncs, torrents, now, picked, serr, env,
                   added, dataDir, files, wst, nrec, results, stats, syncBase,
                   cache>>

\* Time passes. The clock is read by MainLoop, by MainSleep and where a row is
\* written; time that passes while the workers run, before SyncFinish or
\* before MainAfterSync reads the same as time passing at "info" or "loop".
Tick ==
    /\ mpc \in {"loop", "sleep", "sync", "info", "disabled"}
    /\ now + TickHours <= MaxTime
    /\ now' = now + TickHours
    /\ UNCHANGED <<dbVars, sinkVars, syncs, torrents, mpc, sleepDuration, wakeAt,
                   lastSync, picked, serr, env, added, dataDir, files, wst, nrec,
                   results, stats, syncBase, cache, att, inSync>>

\* main, lines 156-158: log the error, if any, and loop. The locals of the
\* call that returned are gone.
MainAfterSync ==
    /\ mpc = "returned"
    /\ mpc' = "loop"
    /\ lastSync' = NilSync
    /\ picked' = NoTorrent
    /\ serr' = "none"
    /\ files' = <<>>
    /\ wst' = <<>>
    /\ nrec' = <<>>
    /\ results' = <<>>
    /\ UNCHANGED <<dbVars, sinkVars, syncs, torrents, now, sleepDuration, wakeAt,
                   env, added, dataDir, stats, syncBase, cache, att, inSync>>

\* ------------------------------------------------------------------ Sync

Return(err) ==
    /\ mpc' = "returned"
    /\ serr' = err
    /\ inSync' = inSync - 1

\* FetchTorrentsList fails: Sync returns the error.
SyncFetchFails ==
    /\ mpc = "sync"
    /\ Return("fetch")
    /\ att' = [att EXCEPT !.outcome = "failed"]
    /\ UNCHANGED <<dbVars, sinkVars, syncs, torrents, now, sleepDuration, wakeAt,
                   lastSync, picked, env, added, dataDir, files, wst, nrec,
                   results, stats, syncBase, cache>>

\* The catalog holds no live metadata torrent.
SyncNoMetadata(cat) ==
    /\ mpc = "sync"
    /\ GetLastMetadataTorrent(cat) = NoTorrent
    /\ torrents' = UpsertTorrents(torrents, cat)
    /\ Return("no metadata torrent found")
    /\ att' = [att EXCEPT !.outcome = "failed"]
    /\ UNCHANGED <<dbVars, sinkVars, syncs, now, sleepDuration, wakeAt, lastSync,
                   picked, env, added, dataDir, files, wst, nrec, results, stats,
                   syncBase, cache>>

\* ANNA_DISABLE_SYNC=true: Sync sleeps forever.
SyncDisabled(cat) ==
    /\ mpc = "sync"
    /\ GetLastMetadataTorrent(cat) # NoTorrent
    /\ env.disableSync
    /\ torrents' = UpsertTorrents(torrents, cat)
    /\ picked' = GetLastMetadataTorrent(cat)
    /\ mpc' = "disabled"
    /\ UNCHANGED <<dbVars, sinkVars, syncs, now, sleepDuration, wakeAt, lastSync,
                   serr, env, added, dataDir, files, wst, nrec, results, stats,
                   syncBase, cache, att, inSync>>

\* The row written when the picked torrent is the one last synced.
AlreadySyncedRowComplete(t) == [Date |-> now, Base |-> t.DisplayName, Complete |-> TRUE]
AlreadySyncedRow(t) == [Date |-> now, Base |-> t.DisplayName, Complete |-> FALSE]

\* lastSync.Base == t.DisplayName: write a row, EndSync, return nil.
SyncAlreadyDone(cat) ==
    LET t == GetLastMetadataTorrent(cat) IN
    /\ mpc = "sync"
    /\ t # NoTorrent
    /\ ~env.disableSync
    /\ lastSync # NilSync /\ lastSync.Base = t.DisplayName
    /\ torrents' = UpsertTorrents(torrents, cat)
    /\ picked' = t
    /\ syncs' = syncs \cup {AlreadySyncedRow(t)}
    /\ EndSync(syncs')
    /\ att' = [att EXCEPT !.outcome = "already",
                          !.endSyncs = @ + 1, !.recomputes = @ + 1]
    /\ Return("nil")
    /\ UNCHANGED <<dbVars, sinkVars, now, sleepDuration, wakeAt, lastSync, env,
                   added, dataDir, files, wst, nrec, results, syncBase>>

\* A new torrent: set syncBase, then client.AddMagnet, which may fail.
SyncAddMagnetFails(cat) ==
    LET t == GetLastMetadataTorrent(cat) IN
    /\ mpc = "sync"
    /\ t # NoTorrent
    /\ ~env.disableSync
    /\ ~(lastSync # NilSync /\ lastSync.Base = t.DisplayName)
    /\ torrents' = UpsertTorrents(torrents, cat)
    /\ picked' = t
    /\ syncBase' = t.DisplayName
    /\ EndSync(syncs)
    /\ att' = [att EXCEPT !.outcome = "failed",
                          !.endSyncs = @ + 1, !.recomputes = @ + 1]
    /\ Return("failed to add magnet")
    /\ UNCHANGED <<dbVars, sinkVars, syncs, now, sleepDuration, wakeAt, lastSync,
                   env, added, dataDir, files, wst, nrec, results>>

SyncAddMagnet(cat) ==
    LET t == GetLastMetadataTorrent(cat) IN
    /\ mpc = "sync"
    /\ t # NoTorrent
    /\ ~env.disableSync
    /\ ~(lastSync # NilSync /\ lastSync.Base = t.DisplayName)
    /\ torrents' = UpsertTorrents(torrents, cat)
    /\ picked' = t
    /\ syncBase' = t.DisplayName
    /\ added' = added \cup {t.MagnetLink}
    /\ dataDir' = "present"
    /\ mpc' = "info"
    /\ UNCHANGED <<dbVars, sinkVars, syncs, now, sleepDuration, wakeAt, lastSync,
                   serr, env, files, wst, nrec, results, stats, cache, att, inSync>>

\* ------------------------------------------------------------------ tracker lock: values

\* The single-flight executions that hold one tracker (DownloadFile calls for
\* one outputFilename under different torrentName keys) and the handlers that
\* subscribe to it; the handlers here never read their channel.
Executions == {"e1", "e2"}

FanSubscribers == {"s1", "s2"}

FanGoroutines == Executions \cup FanSubscribers

\* ------------------------------------------------------------------ shared torrent: values

\* Two DownloadFile calls with the same magnet link and torrentName for two
\* files of the torrent: download c asks for file c under its own
\* outputFilename.
Downloads == {1, 2}

\* ------------------------------------------------------------------ registry lock: values

\* The goroutines that call the registry: the one running Sync, one that
\* reports progress, and the handlers asking for a snapshot.
SnapshotCallers == {"h1", "h2"}

RegGoroutines == {"sync", "progress"} \cup SnapshotCallers

\* ------------------------------------------------------------------ shard processor

\* The n-element subsets' ascending enumeration: sort.Slice by ExtractFileIndex.
RECURSIVE Ascending(_)
Ascending(S) ==
    IF S = {} THEN <<>>
    ELSE LET m == CHOOSE x \in S : \A y \in S : x <= y
         IN  <<m>> \o Ascending(S \ {m})

\* GotInfo, then the files matching the shard pattern. None: return nil, nil
\* (the torrent stays added). Otherwise Files -> StartSync, and one worker per
\* file is started.
DownloadStart(matched) ==
    /\ mpc = "info"
    /\ files' = Ascending(matched)
    /\ IF matched = {}
       THEN /\ mpc' = "finish"
            /\ UNCHANGED <<wst, nrec, stats>>
       ELSE /\ mpc' = "wait"
            /\ wst' = [i \in 1..Cardinality(matched) |-> "running"]
            /\ nrec' = [i \in 1..Cardinality(matched) |-> 0]
            /\ stats' = StartSync(syncBase, Ascending(matched))
    /\ UNCHANGED <<dbVars, sinkVars, syncs, torrents, now, sleepDuration, wakeAt,
                   lastSync, picked, serr, env, added, dataDir, results, syncBase,
                   cache, att, inSync>>

\* The records a shard line may decode to.
ShardInputs == {r \in Inputs : r # NilRecord /\ r.ID \in {<<"a">>, <<"c">>}
                               /\ r.TitleBest = <<"x">>}

\* Lines decoded so far in the running attempt, over all its shards.
RECURSIVE SumSeq(_)
SumSeq(q) == IF q = <<>> THEN 0 ELSE Head(q) + SumSeq(Tail(q))

LinesRead == SumSeq(nrec) + SumSeq([k \in 1..Len(results) |-> results[k].RecordCount])

\* A worker decodes one line and hands the record to annaProcessor.Record,
\* which calls UpsertRecordAndIdentifiers and drops its error.
WorkerRecord(i, r) ==
    /\ mpc = "wait"
    /\ wst[i] = "running"
    /\ LinesRead < MaxSyncRecords
    /\ LET d == UpsertRecordAndIdentifiers(DB, r).db
       IN  /\ records' = d.records
           /\ identifiers' = d.identifiers
           /\ classifications' = d.classifications
    /\ nrec' = [nrec EXCEPT ![i] = @ + 1]
    /\ att' = [att EXCEPT !.storeError = @ \/ UpsertRecordAndIdentifiers(DB, r).err # "ok"]
    /\ UNCHANGED <<sinkVars, syncs, torrents, now, mpc, sleepDuration, wakeAt,
                   lastSync, picked, serr, env, added, dataDir, files, wst,
                   results, stats, syncBase, cache, inSync>>

\* The same with the database failing on the parent statement: the call
\* returns "failed to upsert record" having written nothing, and
\* annaProcessor.Record drops that error like any other; the line counts.
WorkerRecordStoreFails(i, r) ==
    /\ mpc = "wait"
    /\ wst[i] = "running"
    /\ LinesRead < MaxSyncRecords
    /\ ~IsDropped(r)
    /\ nrec' = [nrec EXCEPT ![i] = @ + 1]
    /\ att' = [att EXCEPT !.storeError = TRUE]
    /\ UNCHANGED <<dbVars, sinkVars, syncs, torrents, now, mpc, sleepDuration, wakeAt,
                   lastSync, picked, serr, env, added, dataDir, files, wst,
                   results, stats, syncBase, cache, inSync>>

\* io.EOF or io.ErrUnexpectedEOF: report 100%, return the count; the worker
\* appends its result (its own counter goes out of scope).
WorkerEOF(i, how) ==
    /\ mpc = "wait"
    /\ wst[i] = "running"
    /\ wst' = [wst EXCEPT ![i] = how]
    /\ stats' = ReportDone(stats, files[i])
    /\ results' = Append(results, [FilePath |-> files[i], RecordCount |-> nrec[i],
                                   Error |-> "nil"])
    /\ nrec' = [nrec EXCEPT ![i] = 0]
    /\ UNCHANGED <<dbVars, sinkVars, syncs, torrents, now, mpc, sleepDuration,
                   wakeAt, lastSync, picked, serr, env, added, dataDir, files,
                   syncBase, cache, att, inSync>>

\* Any other read error (or gzip.NewReader failing): result.Error is set and
\* the worker goroutine panics, which ends the process.
WorkerFatalTakenAsEOF(i) ==
    /\ mpc = "wait"
    /\ wst[i] = "running"
    /\ wst' = [wst EXCEPT ![i] = "fatal"]
    /\ stats' = ReportDone(stats, files[i])
    /\ results' = Append(results, [FilePath |-> files[i], RecordCount |-> nrec[i],
                                   Error |-> "nil"])
    /\ nrec' = [nrec EXCEPT ![i] = 0]
    /\ UNCHANGED <<dbVars, sinkVars, syncs, torrents, now, mpc, sleepDuration,
                   wakeAt, lastSync, picked, serr, env, added, dataDir, files,
                   syncBase, cache, att, inSync>>
WorkerFatal(i) ==
    /\ mpc = "wait"
    /\ wst[i] = "running"
    /\ wst' = [wst EXCEPT ![i] = "fatal"]
    /\ mpc' = "crashed"
    /\ att' = [att EXCEPT !.outcome = "crashed"]
    /\ UNCHANGED <<dbVars, sinkVars, syncs, torrents, now, sleepDuration, wakeAt,
                   lastSync, picked, serr, env, added, dataDir, files, nrec,
                   results, stats, syncBase, cache, inSync>>

\* wg.Wait returns: close(done), t.Drop(), return results.
DownloadReturn ==
    /\ mpc = "wait"
    /\ Len(results) = Len(files)
    /\ added' = added \ {picked.MagnetLink}
    /\ mpc' = "finish"
    /\ UNCHANGED <<dbVars, sinkVars, syncs, torrents, now, sleepDuration, wakeAt,
                   lastSync, picked, serr, env, dataDir, files, wst, nrec,
                   results, stats, syncBase, cache, att, inSync>>

\* Sync with EndSync called before the Synchronization row is created.
SyncFinishRecomputeFirst ==
    /\ mpc = "finish"
    /\ IF \E k \in 1..Len(results) : results[k].Error # "nil"
       THEN /\ EndSync(syncs)
            /\ att' = [att EXCEPT !.outcome = "failed",
                                  !.endSyncs = @ + 1, !.recomputes = @ + 1]
            /\ Return("error processing file")
            /\ UNCHANGED <<syncs, dataDir>>
       ELSE /\ dataDir' = IF env.keepFiles THEN dataDir ELSE "removed"
            /\ syncs' = syncs \cup {[Date |-> now, Base |-> picked.DisplayName,
                                     Complete |-> TRUE]}
            /\ EndSync(syncs)
            /\ att' = [att EXCEPT !.outcome = "ok",
                                  !.endSyncs = @ + 1, !.recomputes = @ + 1]
            /\ Return("nil")
    /\ results' = <<>>
    /\ UNCHANGED <<dbVars, sinkVars, now, sleepDuration, wakeAt, lastSync, picked,
                   torrents, env, added, files, wst, nrec, syncBase>>

\* Sync taking an attempt without results for a failed one.
SyncFinishEmptyFails ==
    /\ mpc = "finish"
    /\ IF results = <<>> \/ \E k \in 1..Len(results) : results[k].Error # "nil"
       THEN /\ EndSync(syncs)
            /\ att' = [att EXCEPT !.outcome = "failed",
                                  !.endSyncs = @ + 1, !.recomputes = @ + 1]
            /\ Return("error processing file")
            /\ UNCHANGED <<syncs, dataDir>>
       ELSE /\ dataDir' = IF env.keepFiles THEN dataDir ELSE "removed"
            /\ syncs' = syncs \cup {[Date |-> now, Base |-> picked.DisplayName,
                                     Complete |-> TRUE]}
            /\ EndSync(syncs')
            /\ att' = [att EXCEPT !.outcome = "ok",
                                  !.endSyncs = @ + 1, !.recomputes = @ + 1]
            /\ Return("nil")
    /\ results' = <<>>
    /\ UNCHANGED <<dbVars, sinkVars, now, sleepDuration, wakeAt, lastSync, picked,
                   torrents, env, added, files, wst, nrec, syncBase>>

\* Sync, lines 234-257: a result carrying an error ends the attempt with
\* EndSync; otherwise purge unless ANNA_KEEP_FILES, write the complete row,
\* EndSync, return (the results slice dies with the call).
SyncFinish ==
    /\ mpc = "finish"
    /\ IF \E k \in 1..Len(results) : results[k].Error # "nil"
       THEN /\ EndSync(syncs)
            /\ att' = [att EXCEPT !.outcome = "failed",
                                  !.endSyncs = @ + 1, !.recomputes = @ + 1]
            /\ Return("error processing file")
            /\ UNCHANGED <<syncs, dataDir>>
       ELSE /\ dataDir' = IF env.keepFiles THEN dataDir ELSE "removed"
            /\ syncs' = syncs \cup {[Date |-> now, Base |-> picked.DisplayName,
                                     Complete |-> TRUE]}
            /\ EndSync(syncs')
            /\ att' = [att EXCEPT !.outcome = "ok",
                                  !.endSyncs = @ + 1, !.recomputes = @ + 1]
            /\ Return("nil")
    /\ results' = <<>>
    /\ UNCHANGED <<dbVars, sinkVars, now, sleepDuration, wakeAt, lastSync, picked,
                   torrents, env, added, files, wst, nrec, syncBase>>

\* Empty tables, no call in progress, the orchestrator not yet looping.
InitSink ==
    /\ records = [x \in {} |-> <<>>]
    /\ identifiers = {}
    /\ classifications = {}
    /\ upc = [w \in Workers |-> "idle"]
    /\ urec = [w \in Workers |-> NilRecord]
    /\ uret = [w \in Workers |-> "none"]
    /\ called = {}
    /\ repeated = {}
    /\ ncalls = 0
    /\ syncs = {}
    /\ torrents = [b \in {} |-> NoTorrent]
    /\ now = 0
    /\ mpc = "loop"
    /\ sleepDuration = 0
    /\ wakeAt = 0
    /\ lastSync = NilSync
    /\ picked = NoTorrent
    /\ serr = "none"
    /\ env = [disableSync |-> FALSE, keepFiles |-> FALSE]
    /\ added = {}
    /\ dataDir = "present"
    /\ files = <<>>
    /\ wst = <<>>
    /\ nrec = <<>>
    /\ results = <<>>
    /\ stats = IdleStats
    /\ syncBase = ""
    /\ cache = NoStats
    /\ att = [outcome |-> "none", endSyncs |-> 0, recomputes |-> 0, storeError |-> FALSE]
    /\ inSync = 0
    /\ catalog = <<>>
    /\ latest = NotCalled
    /\ storage = "ok"
    /\ epubFile = NoFile
    /\ active = NoTracker
    /\ trk = [c \in Callers |-> newDownloadTracker]
    /\ flight = NoCaller
    /\ cpc = [c \in Callers |-> "idle"]
    /\ ctrk = [c \in Callers |-> NoTracker]
    /\ cjoin = [c \in Callers |-> NoCaller]
    /\ fnres = [c \in Callers |-> "none"]
    /\ cres = [c \in Callers |-> "none"]
    /\ dlBytes = 0
    /\ dlLost = FALSE
    /\ ran = {}
    /\ magnets = 0
    /\ peers = [c \in Callers |-> {}]
    /\ cstart = [c \in Callers |-> "none"]
    /\ chans = [x \in Subscribers |-> [buf |-> <<>>, closed |-> FALSE]]
    /\ spc = [x \in Subscribers |-> "none"]
    /\ got = [x \in Subscribers |-> NoEvents]
    /\ muWriter = NoProc
    /\ muReaders = {}
    /\ ppc = [p \in StatProcs |-> "idle"]
    /\ pop = [p \in StatProcs |-> "none"]
    /\ pbuild = [p \in StatProcs |-> NewStats]
    /\ pret = [p \in StatProcs |-> NotCalled]
    /\ pq = [p \in StatProcs |-> FALSE]
    /\ dstatus = "none"
    /\ backing = [a \in Arrays |-> <<>>]
    /\ filesRef = NoArray
    /\ snap = NotCalled
    /\ snapSeen = NotCalled
    /\ isbnCode = <<>>
    /\ isbn13 = NotCalled
    /\ isbn10 = NotCalled
    /\ isbnBack = NotCalled
    /\ held = [w \in Workers |-> {}]
    /\ todo = [w \in Workers |-> <<>>]
    /\ tfiles = <<>>
    /\ sel = NotCalled
    /\ shardIn = [lines |-> <<>>, fragment |-> "", end |-> "eof"]
    /\ spos = 1
    /\ sbusy = FALSE
    /\ sinv = <<>>
    /\ scount = 0
    /\ sres = NotCalled
    /\ orch = "idle"
    /\ wrun = {}
    /\ smpPc = "none"
    /\ doneClosed = FALSE
    /\ tickerC = 0
    /\ nticks = 0
    /\ smpFile = 0
    /\ fileIndex = -1
    /\ calledAt = {}
    /\ wroteAt = {}
    /\ rmu = [writer |-> "none", readers |-> {}]
    /\ rpc = [g \in RegGoroutines |-> "idle"]
    /\ qrun = FALSE
    /\ rsnap = [h \in SnapshotCallers |-> NotCalled]
    /\ tmu = "none"
    /\ tsubs = <<>>
    /\ tprogress = "DOWNLOADING"
    /\ fpc = [g \in FanGoroutines |-> "idle"]
    /\ flocal = [e \in Executions |-> <<>>]
    /\ fch = [x \in FanSubscribers |-> [len |-> 0, closed |-> FALSE]]
    /\ fdrop = [x \in FanSubscribers |-> FALSE]
    /\ fpanic = "none"
    /\ hpc = [c \in Downloads |-> "idle"]
    /\ hctx = [c \in Downloads |-> FALSE]
    /\ hcancelAt = [c \in Downloads |-> "none"]
    /\ htorrent = [added |-> FALSE, info |-> FALSE]
    /\ hhandle = [c \in Downloads |-> "none"]
    /\ hbytes = [c \in Downloads |-> 0]
    /\ hdisk = [c \in Downloads |-> NoFile]
    /\ hres = [c \in Downloads |-> NotCalled]
    /\ hactive = [c \in Downloads |-> FALSE]

\* The sink under concurrent calls from the shard workers, the store reliable.
NextSink ==
    \/ \E w \in Workers, r \in Inputs : UpsertBegin(w, r) /\ UNCHANGED <<syncVars, extVars>>
    \/ \E w \in Workers : UpsertIdentifiers(w) /\ UNCHANGED <<syncVars, extVars>>
    \/ \E w \in Workers : UpsertClassifications(w) /\ UNCHANGED <<syncVars, extVars>>

SpecSink == InitSink /\ [][NextSink]_vars

\* The same, where any statement may also fail in the store.
NextSinkFault ==
    \/ \E w \in Workers, r \in Inputs : UpsertBegin(w, r) /\ UNCHANGED <<syncVars, extVars>>
    \/ \E w \in Workers : UpsertIdentifiers(w) /\ UNCHANGED <<syncVars, extVars>>
    \/ \E w \in Workers : UpsertClassifications(w) /\ UNCHANGED <<syncVars, extVars>>
    \/ \E w \in Workers, r \in Inputs : FailParent(w, r) /\ UNCHANGED <<syncVars, extVars>>
    \/ \E w \in Workers : FailIdentifiers(w) /\ UNCHANGED <<syncVars, extVars>>
    \/ \E w \in Workers : FailClassifications(w) /\ UNCHANGED <<syncVars, extVars>>

SpecSinkFault == InitSink /\ [][NextSinkFault]_vars

\* The orchestrator: main loop, Sync, the shard workers, the clock. The process
\* starts on empty tables, with either setting of its two switches.
InitSync ==
    /\ records = [x \in {} |-> <<>>]
    /\ identifiers = {}
    /\ classifications = {}
    /\ upc = [w \in Workers |-> "idle"]
    /\ urec = [w \in Workers |-> NilRecord]
    /\ uret = [w \in Workers |-> "none"]
    /\ called = {}
    /\ repeated = {}
    /\ ncalls = 0
    /\ syncs = {}
    /\ torrents = [b \in {} |-> NoTorrent]
    /\ now = 0
    /\ mpc = "loop"
    /\ sleepDuration = 0
    /\ wakeAt = 0
    /\ lastSync = NilSync
    /\ picked = NoTorrent
    /\ serr = "none"
    /\ env \in [disableSync : BOOLEAN, keepFiles : BOOLEAN]
    /\ added = {}
    /\ dataDir = "present"
    /\ files = <<>>
    /\ wst = <<>>
    /\ nrec = <<>>
    /\ results = <<>>
    /\ stats = IdleStats
    /\ syncBase = ""
    /\ cache = NoStats
    /\ att = [outcome |-> "none", endSyncs |-> 0, recomputes |-> 0, storeError |-> FALSE]
    /\ inSync = 0
    /\ catalog = <<>>
    /\ latest = NotCalled
    /\ storage = "ok"
    /\ epubFile = NoFile
    /\ active = NoTracker
    /\ trk = [c \in Callers |-> newDownloadTracker]
    /\ flight = NoCaller
    /\ cpc = [c \in Callers |-> "idle"]
    /\ ctrk = [c \in Callers |-> NoTracker]
    /\ cjoin = [c \in Callers |-> NoCaller]
    /\ fnres = [c \in Callers |-> "none"]
    /\ cres = [c \in Callers |-> "none"]
    /\ dlBytes = 0
    /\ dlLost = FALSE
    /\ ran = {}
    /\ magnets = 0
    /\ peers = [c \in Callers |-> {}]
    /\ cstart = [c \in Callers |-> "none"]
    /\ chans = [x \in Subscribers |-> [buf |-> <<>>, closed |-> FALSE]]
    /\ spc = [x \in Subscribers |-> "none"]
    /\ got = [x \in Subscribers |-> NoEvents]
    /\ muWriter = NoProc
    /\ muReaders = {}
    /\ ppc = [p \in StatProcs |-> "idle"]
    /\ pop = [p \in StatProcs |-> "none"]
    /\ pbuild = [p \in StatProcs |-> NewStats]
    /\ pret = [p \in StatProcs |-> NotCalled]
    /\ pq = [p \in StatProcs |-> FALSE]
    /\ dstatus = "none"
    /\ backing = [a \in Arrays |-> <<>>]
    /\ filesRef = NoArray
    /\ snap = NotCalled
    /\ snapSeen = NotCalled
    /\ isbnCode = <<>>
    /\ isbn13 = NotCalled
    /\ isbn10 = NotCalled
    /\ isbnBack = NotCalled
    /\ held = [w \in Workers |-> {}]
    /\ todo = [w \in Workers |-> <<>>]
    /\ tfiles = <<>>
    /\ sel = NotCalled
    /\ shardIn = [lines |-> <<>>, fragment |-> "", end |-> "eof"]
    /\ spos = 1
    /\ sbusy = FALSE
    /\ sinv = <<>>
    /\ scount = 0
    /\ sres = NotCalled
    /\ orch = "idle"
    /\ wrun = {}
    /\ smpPc = "none"
    /\ doneClosed = FALSE
    /\ tickerC = 0
    /\ nticks = 0
    /\ smpFile = 0
    /\ fileIndex = -1
    /\ calledAt = {}
    /\ wroteAt = {}
    /\ rmu = [writer |-> "none", readers |-> {}]
    /\ rpc = [g \in RegGoroutines |-> "idle"]
    /\ qrun = FALSE
    /\ rsnap = [h \in SnapshotCallers |-> NotCalled]
    /\ tmu = "none"
    /\ tsubs = <<>>
    /\ tprogress = "DOWNLOADING"
    /\ fpc = [g \in FanGoroutines |-> "idle"]
    /\ flocal = [e \in Executions |-> <<>>]
    /\ fch = [x \in FanSubscribers |-> [len |-> 0, closed |-> FALSE]]
    /\ fdrop = [x \in FanSubscribers |-> FALSE]
    /\ fpanic = "none"
    /\ hpc = [c \in Downloads |-> "idle"]
    /\ hctx = [c \in Downloads |-> FALSE]
    /\ hcancelAt = [c \in Downloads |-> "none"]
    /\ htorrent = [added |-> FALSE, info |-> FALSE]
    /\ hhandle = [c \in Downloads |-> "none"]
    /\ hbytes = [c \in Downloads |-> 0]
    /\ hdisk = [c \in Downloads |-> NoFile]
    /\ hres = [c \in Downloads |-> NotCalled]
    /\ hactive = [c \in Downloads |-> FALSE]

NextSync ==
    \/ MainLoop /\ UNCHANGED extVars
    \/ MainSleep /\ UNCHANGED extVars
    \/ Tick /\ UNCHANGED extVars
    \/ MainAfterSync /\ UNCHANGED extVars
    \/ SyncFetchFails /\ UNCHANGED extVars
    \/ \E cat \in Catalogs : SyncNoMetadata(cat) /\ UNCHANGED extVars
    \/ \E cat \in Catalogs : SyncDisabled(cat) /\ UNCHANGED extVars
    \/ \E cat \in Catalogs : SyncAlreadyDone(cat) /\ UNCHANGED extVars
    \/ \E cat \in Catalogs : SyncAddMagnetFails(cat) /\ UNCHANGED extVars
    \/ \E cat \in Catalogs : SyncAddMagnet(cat) /\ UNCHANGED extVars
    \/ \E matched \in SUBSET (1..MaxShards) : DownloadStart(matched) /\ UNCHANGED extVars
    \/ \E i \in DOMAIN wst, r \in ShardInputs : WorkerRecord(i, r) /\ UNCHANGED extVars
    \/ \E i \in DOMAIN wst, r \in ShardInputs : WorkerRecordStoreFails(i, r) /\ UNCHANGED extVars
    \/ \E i \in DOMAIN wst, how \in {"eof", "unexpectedEOF"} : WorkerEOF(i, how) /\ UNCHANGED extVars
    \/ \E i \in DOMAIN wst : WorkerFatal(i) /\ UNCHANGED extVars
    \/ DownloadReturn /\ UNCHANGED extVars
    \/ SyncFinish /\ UNCHANGED extVars

SpecSync == InitSync /\ [][NextSync]_vars

\* ------------------------------------------------------------------ catalog pick

\* The longest catalog handed to GetLastMetadataTorrent.
MaxCatalog == 3

\* An eligible entry whose added_to_torrents_list_at is empty, and one dated
\* like MetaV2.
MetaUndated == TorrentsResponse("vu", "other_aa", "aa_derived_mirror_metadata", FALSE, <<>>)
MetaV2Again == TorrentsResponse("v2b", "other_aa", "aa_derived_mirror_metadata", FALSE, <<"2">>)

CatalogEntries == {MetaV1, MetaV2, MetaV2Again, MetaUndated, MetaOld, OtherGroup}

\* What json.Decode may fill the slice with.
CatalogsUpTo(n) == UNION {[1..k -> CatalogEntries] : k \in 0..n}

\* t := anna.GetLastMetadataTorrent(at)
PickLatest ==
    /\ latest = NotCalled
    /\ latest' = GetLastMetadataTorrent(catalog)
    /\ UNCHANGED <<dbVars, sinkVars, syncVars, catalog>>

InitPick ==
    /\ records = [x \in {} |-> <<>>]
    /\ identifiers = {}
    /\ classifications = {}
    /\ upc = [w \in Workers |-> "idle"]
    /\ urec = [w \in Workers |-> NilRecord]
    /\ uret = [w \in Workers |-> "none"]
    /\ called = {}
    /\ repeated = {}
    /\ ncalls = 0
    /\ syncs = {}
    /\ torrents = [b \in {} |-> NoTorrent]
    /\ now = 0
    /\ mpc = "loop"
    /\ sleepDuration = 0
    /\ wakeAt = 0
    /\ lastSync = NilSync
    /\ picked = NoTorrent
    /\ serr = "none"
    /\ env = [disableSync |-> FALSE, keepFiles |-> FALSE]
    /\ added = {}
    /\ dataDir = "present"
    /\ files = <<>>
    /\ wst = <<>>
    /\ nrec = <<>>
    /\ results = <<>>
    /\ stats = IdleStats
    /\ syncBase = ""
    /\ cache = NoStats
    /\ att = [outcome |-> "none", endSyncs |-> 0, recomputes |-> 0, storeError |-> FALSE]
    /\ inSync = 0
    /\ catalog \in CatalogsUpTo(MaxCatalog)
    /\ latest = NotCalled
    /\ storage = "ok"
    /\ epubFile = NoFile
    /\ active = NoTracker
    /\ trk = [c \in Callers |-> newDownloadTracker]
    /\ flight = NoCaller
    /\ cpc = [c \in Callers |-> "idle"]
    /\ ctrk = [c \in Callers |-> NoTracker]
    /\ cjoin = [c \in Callers |-> NoCaller]
    /\ fnres = [c \in Callers |-> "none"]
    /\ cres = [c \in Callers |-> "none"]
    /\ dlBytes = 0
    /\ dlLost = FALSE
    /\ ran = {}
    /\ magnets = 0
    /\ peers = [c \in Callers |-> {}]
    /\ cstart = [c \in Callers |-> "none"]
    /\ chans = [x \in Subscribers |-> [buf |-> <<>>, closed |-> FALSE]]
    /\ spc = [x \in Subscribers |-> "none"]
    /\ got = [x \in Subscribers |-> NoEvents]
    /\ muWriter = NoProc
    /\ muReaders = {}
    /\ ppc = [p \in StatProcs |-> "idle"]
    /\ pop = [p \in StatProcs |-> "none"]
    /\ pbuild = [p \in StatProcs |-> NewStats]
    /\ pret = [p \in StatProcs |-> NotCalled]
    /\ pq = [p \in StatProcs |-> FALSE]
    /\ dstatus = "none"
    /\ backing = [a \in Arrays |-> <<>>]
    /\ filesRef = NoArray
    /\ snap = NotCalled
    /\ snapSeen = NotCalled
    /\ isbnCode = <<>>
    /\ isbn13 = NotCalled
    /\ isbn10 = NotCalled
    /\ isbnBack = NotCalled
    /\ held = [w \in Workers |-> {}]
    /\ todo = [w \in Workers |-> <<>>]
    /\ tfiles = <<>>
    /\ sel = NotCalled
    /\ shardIn = [lines |-> <<>>, fragment |-> "", end |-> "eof"]
    /\ spos = 1
    /\ sbusy = FALSE
    /\ sinv = <<>>
    /\ scount = 0
    /\ sres = NotCalled
    /\ orch = "idle"
    /\ wrun = {}
    /\ smpPc = "none"
    /\ doneClosed = FALSE
    /\ tickerC = 0
    /\ nticks = 0
    /\ smpFile = 0
    /\ fileIndex = -1
    /\ calledAt = {}
    /\ wroteAt = {}
    /\ rmu = [writer |-> "none", readers |-> {}]
    /\ rpc = [g \in RegGoroutines |-> "idle"]
    /\ qrun = FALSE
    /\ rsnap = [h \in SnapshotCallers |-> NotCalled]
    /\ tmu = "none"
    /\ tsubs = <<>>
    /\ tprogress = "DOWNLOADING"
    /\ fpc = [g \in FanGoroutines |-> "idle"]
    /\ flocal = [e \in Executions |-> <<>>]
    /\ fch = [x \in FanSubscribers |-> [len |-> 0, closed |-> FALSE]]
    /\ fdrop = [x \in FanSubscribers |-> FALSE]
    /\ fpanic = "none"
    /\ hpc = [c \in Downloads |-> "idle"]
    /\ hctx = [c \in Downloads |-> FALSE]
    /\ hcancelAt = [c \in Downloads |-> "none"]
    /\ htorrent = [added |-> FALSE, info |-> FALSE]
    /\ hhandle = [c \in Downloads |-> "none"]
    /\ hbytes = [c \in Downloads |-> 0]
    /\ hdisk = [c \in Downloads |-> NoFile]
    /\ hres = [c \in Downloads |-> NotCalled]
    /\ hactive = [c \in Downloads |-> FALSE]

NextPick == PickLatest /\ UNCHANGED <<epubVars, statVars, auxVars>>

SpecPick == InitPick /\ [][NextPick]_vars

\* ------------------------------------------------------------------ on-demand download

\* select { case ch <- progress: default: } on every channel of subs.
FanOut(ch, subs, ev) ==
    [x \in Subscribers |->
        IF (\E k \in 1..Len(subs) : subs[k] = x) /\ Len(ch[x].buf) < ChanCap
        THEN [ch[x] EXCEPT !.buf = Append(@, ev)]
        ELSE ch[x]]

\* tracker.update(bytesCompleted, totalBytes)
TrackerUpdate(t, b) ==
    /\ trk' = [trk EXCEPT ![t].Status = "DOWNLOADING", ![t].BytesCompleted = b]
    /\ chans' = FanOut(chans, trk[t].subscribers, DownloadProgressEvent("DOWNLOADING", b))

\* tracker.complete(): the final event is offered without blocking, every
\* channel is closed, the subscriber list is dropped.
TrackerComplete(t) ==
    /\ trk' = [trk EXCEPT ![t].Status = "DOWNLOADED", ![t].subscribers = <<>>]
    /\ chans' = [x \in Subscribers |->
                    IF \E k \in 1..Len(trk[t].subscribers) : trk[t].subscribers[k] = x
                    THEN [FanOut(chans, trk[t].subscribers,
                                 DownloadProgressEvent("DOWNLOADED", trk[t].BytesCompleted))[x]
                             EXCEPT !.closed = TRUE]
                    ELSE chans[x]]

\* os.ReadFile(filepath.Join(EpubStorageDir, outputFilename)) succeeds.
OnDisk == storage # "unset" /\ epubFile # NoFile

InFlight(c) == cpc[c] \notin {"idle", "done"}

\* DownloadFile, lines 158-164: the outer disk check.
DownloadFileCheck(c) ==
    /\ cpc[c] = "idle"
    /\ IF OnDisk
       THEN /\ cpc' = [cpc EXCEPT ![c] = "done"]
            /\ cres' = [cres EXCEPT ![c] = epubFile]
       ELSE /\ cpc' = [cpc EXCEPT ![c] = "store"]
            /\ UNCHANGED cres
    /\ peers' = [x \in Callers |->
                    IF x = c THEN {d \in Callers \ {c} : InFlight(d)}
                    ELSE peers[x]]
    /\ cstart' = [cstart EXCEPT ![c] = IF inSync > 0 THEN "syncing" ELSE "idle"]
    /\ UNCHANGED <<storage, epubFile, active, flight, ctrk, cjoin, fnres, dlBytes,
                   dlLost, ran, magnets, subVars, added>>

\* lines 167-169: newDownloadTracker, activeDownloads.LoadOrStore.
DownloadFileStore(c) ==
    /\ cpc[c] = "store"
    /\ IF active = NoTracker
       THEN /\ active' = c
            /\ trk' = [trk EXCEPT ![c] = newDownloadTracker]
            /\ ctrk' = [ctrk EXCEPT ![c] = c]
       ELSE /\ ctrk' = [ctrk EXCEPT ![c] = active]
            /\ UNCHANGED <<active, trk>>
    /\ cpc' = [cpc EXCEPT ![c] = "do"]
    /\ UNCHANGED <<storage, epubFile, flight, cjoin, fnres, cres, dlBytes, dlLost,
                   ran, magnets, peers, cstart, chans, spc, got, added>>

\* g.Do without coalescing: every caller runs fn itself.
DownloadFileDoAlone(c) ==
    /\ cpc[c] = "do"
    /\ flight' = c
    /\ cpc' = [cpc EXCEPT ![c] = "fn"]
    /\ UNCHANGED <<storage, epubFile, active, ctrk, cjoin, fnres, cres, dlBytes,
                   dlLost, ran, magnets, peers, cstart, subVars, added>>

\* g.Do(key, fn): run fn when no call for the key is in flight, else wait
\* for the one that is.
DownloadFileDo(c) ==
    /\ cpc[c] = "do"
    /\ IF flight = NoCaller
       THEN /\ flight' = c
            /\ cpc' = [cpc EXCEPT ![c] = "fn"]
            /\ UNCHANGED cjoin
       ELSE /\ cjoin' = [cjoin EXCEPT ![c] = flight]
            /\ cpc' = [cpc EXCEPT ![c] = "joined"]
            /\ UNCHANGED flight
    /\ UNCHANGED <<storage, epubFile, active, ctrk, fnres, cres, dlBytes, dlLost,
                   ran, magnets, peers, cstart, subVars, added>>

\* fn without the disk check inside the flight: always download.
FnNoRecheck(c) ==
    /\ cpc[c] = "fn"
    /\ cpc' = [cpc EXCEPT ![c] = "add"]
    /\ UNCHANGED <<storage, epubFile, active, flight, ctrk, cjoin, fnres, cres,
                   dlBytes, dlLost, ran, magnets, peers, cstart, subVars, added>>

\* fn, lines 178-184: the disk check inside the flight.
FnCheck(c) ==
    /\ cpc[c] = "fn"
    /\ IF OnDisk
       THEN /\ fnres' = [fnres EXCEPT ![c] = epubFile]
            /\ cpc' = [cpc EXCEPT ![c] = "complete"]
       ELSE /\ cpc' = [cpc EXCEPT ![c] = "add"]
            /\ UNCHANGED fnres
    /\ UNCHANGED <<storage, epubFile, active, flight, ctrk, cjoin, cres, dlBytes,
                   dlLost, ran, magnets, peers, cstart, subVars, added>>

\* downloadFileInternal, lines 194-198: client.AddMagnet, which may fail.
InternalAddMagnet(c, ok) ==
    /\ cpc[c] = "add"
    /\ ran' = ran \cup {c}
    /\ IF ok
       THEN /\ added' = added \cup {EpubMagnet}
            /\ magnets' = magnets + 1
            /\ dlBytes' = 0
            /\ dlLost' = FALSE
            /\ cpc' = [cpc EXCEPT ![c] = "info"]
            /\ UNCHANGED fnres
       ELSE /\ fnres' = [fnres EXCEPT ![c] = "failed to add magnet"]
            /\ cpc' = [cpc EXCEPT ![c] = "complete"]
            /\ UNCHANGED <<added, magnets, dlBytes, dlLost>>
    /\ UNCHANGED <<storage, epubFile, active, flight, ctrk, cjoin, cres, peers,
                   cstart, subVars>>

\* lines 202-242: GotInfo, then the file is looked up in the torrent; found,
\* it is requested and update(0, length) is published; not found, the call
\* returns an error and the deferred t.Drop() runs.
InternalGotInfo(c, found) ==
    /\ cpc[c] = "info"
    /\ IF found
       THEN /\ TrackerUpdate(ctrk[c], 0)
            /\ cpc' = [cpc EXCEPT ![c] = "poll"]
            /\ UNCHANGED <<fnres, added>>
       ELSE /\ fnres' = [fnres EXCEPT ![c] = "file not found in torrent"]
            /\ added' = added \ {EpubMagnet}
            /\ cpc' = [cpc EXCEPT ![c] = "complete"]
            /\ UNCHANGED <<trk, chans>>
    /\ UNCHANGED <<storage, epubFile, active, flight, ctrk, cjoin, cres, dlBytes,
                   dlLost, ran, magnets, peers, cstart, spc, got>>

\* The swarm delivers one more piece of the requested file.
PieceArrives ==
    /\ EpubMagnet \in added
    /\ \E c \in Callers : cpc[c] = "poll"
    /\ dlBytes < FileLength
    /\ dlBytes' = dlBytes + 1
    /\ UNCHANGED <<storage, epubFile, active, flight, cpc, ctrk, cjoin, fnres, cres,
                   dlLost, ran, magnets, peers, cstart, subVars, added>>

\* lines 245-254: one turn of the polling loop.
InternalPoll(c) ==
    /\ cpc[c] = "poll"
    /\ dlBytes < FileLength
    /\ TrackerUpdate(ctrk[c], dlBytes)
    /\ UNCHANGED <<callVars, spc, got, added>>

\* line 255: the loop is left, update(length, length).
InternalLoopExit(c) ==
    /\ cpc[c] = "poll"
    /\ dlBytes >= FileLength
    /\ TrackerUpdate(ctrk[c], FileLength)
    /\ cpc' = [cpc EXCEPT ![c] = "read"]
    /\ UNCHANGED <<storage, epubFile, active, flight, ctrk, cjoin, fnres, cres,
                   dlBytes, dlLost, ran, magnets, peers, cstart, spc, got, added>>

\* What io.ReadAll over the torrent reader may give: the file's bytes; once
\* pieces the client holds as complete were removed from DataDir, also other
\* bytes or an error.
ReadOutcomes ==
    IF dlLost THEN {"bytes", "corrupt", "failed to read file"} ELSE {"bytes"}

\* lines 259-283: read the file, save it to the storage dir when that is
\* configured and writable, return; the deferred t.Drop() runs.
InternalRead(c, data) ==
    /\ cpc[c] = "read"
    /\ data \in ReadOutcomes
    /\ fnres' = [fnres EXCEPT ![c] = data]
    /\ epubFile' = IF data # "failed to read file" /\ storage = "ok"
                   THEN data ELSE epubFile
    /\ added' = added \ {EpubMagnet}
    /\ cpc' = [cpc EXCEPT ![c] = "complete"]
    /\ UNCHANGED <<storage, active, flight, ctrk, cjoin, cres, dlBytes, dlLost, ran,
                   magnets, peers, cstart, subVars>>

\* fn's deferred function, line 174: tracker.complete().
FnComplete(c) ==
    /\ cpc[c] = "complete"
    /\ TrackerComplete(ctrk[c])
    /\ cpc' = [cpc EXCEPT ![c] = "delete"]
    /\ UNCHANGED <<storage, epubFile, active, flight, ctrk, cjoin, fnres, cres,
                   dlBytes, dlLost, ran, magnets, peers, cstart, spc, got, added>>

\* line 175: activeDownloads.Delete(outputFilename).
FnDelete(c) ==
    /\ cpc[c] = "delete"
    /\ active' = NoTracker
    /\ cpc' = [cpc EXCEPT ![c] = "release"]
    /\ UNCHANGED <<storage, epubFile, flight, ctrk, cjoin, fnres, cres, dlBytes,
                   dlLost, ran, magnets, peers, cstart, subVars, added>>

\* fn has returned: singleflight forgets the key and hands fn's result to
\* the caller and to every call that joined it; lines 187-190.
DoRelease(c) ==
    /\ cpc[c] = "release"
    /\ flight' = NoCaller
    /\ LET served == {c} \cup {d \in Callers : cpc[d] = "joined" /\ cjoin[d] = c}
       IN  /\ cres' = [d \in Callers |-> IF d \in served THEN fnres[c] ELSE cres[d]]
           /\ cpc' = [d \in Callers |-> IF d \in served THEN "done" ELSE cpc[d]]
    /\ UNCHANGED <<storage, epubFile, active, ctrk, cjoin, fnres, dlBytes, dlLost,
                   ran, magnets, peers, cstart, subVars, added>>

\* GetDownloadStatus with the two tests in the other order.
GetDownloadStatusTrackerFirst ==
    IF active # NoTracker THEN "DOWNLOADING"
    ELSE IF storage # "unset" /\ epubFile # NoFile THEN "DOWNLOADED"
    ELSE "NOT_STARTED"

\* GetDownloadStatus, lines 128-142: os.Stat in the storage dir, then
\* activeDownloads.Load.
GetDownloadStatus ==
    IF storage # "unset" /\ epubFile # NoFile THEN "DOWNLOADED"
    ELSE IF active # NoTracker THEN "DOWNLOADING"
    ELSE "NOT_STARTED"

\* A handler asks for the status of the file.
StatusCall ==
    /\ dstatus = "none"
    /\ dstatus' = GetDownloadStatus
    /\ UNCHANGED <<dbVars, sinkVars, syncVars, pickVars, epubVars, statVars, regVars, isbnVars, lockVars, selVars, shardVars, tailVars>>

\* The handler has answered.
StatusAnswered ==
    /\ dstatus # "none"
    /\ dstatus' = "none"
    /\ UNCHANGED <<dbVars, sinkVars, syncVars, pickVars, epubVars, statVars, regVars, isbnVars, lockVars, selVars, shardVars, tailVars>>

\* ------------------------------------------------------------------ progress subscribers

\* t.subscribers without the channel of subscriber x.
Without(subs, x) == SelectSeq(subs, LAMBDA y : y # x)

\* The cleanup function returned by subscribe().
Cleanup(x) == [t \in Callers |-> [trk[t] EXCEPT !.subscribers = Without(@, x)]]

\* A subscribe() that sends no snapshot.
SubscribeSilently(x) ==
    /\ spc[x] = "none"
    /\ active # NoTracker
    /\ trk' = [trk EXCEPT ![active].subscribers = Append(@, x)]
    /\ chans' = [chans EXCEPT ![x] = [buf |-> <<>>, closed |-> FALSE]]
    /\ spc' = [spc EXCEPT ![x] = "subscribed"]
    /\ UNCHANGED <<callVars, got, added>>

\* SubscribeDownloadProgress, lines 120-127, on a registered tracker:
\* subscribe() makes the channel, appends it and sends the current snapshot.
SubscribeDownloadProgress(x) ==
    /\ spc[x] = "none"
    /\ active # NoTracker
    /\ trk' = [trk EXCEPT ![active].subscribers = Append(@, x)]
    /\ chans' = [chans EXCEPT ![x] =
                    [buf |-> <<DownloadProgressEvent(trk[active].Status,
                                                     trk[active].BytesCompleted)>>,
                     closed |-> FALSE]]
    /\ spc' = [spc EXCEPT ![x] = "subscribed"]
    /\ UNCHANGED <<callVars, got, added>>

\* The SSE handler takes one event off its channel; after a DOWNLOADED event
\* it returns, which runs the cleanup.
SubscriberReceive(x) ==
    /\ spc[x] = "subscribed"
    /\ chans[x].buf # <<>>
    /\ LET ev == Head(chans[x].buf)
       IN  /\ got' = [got EXCEPT ![x] =
                        [first |-> IF @.first = "none" THEN ev.Status ELSE @.first,
                         downloading |-> @.downloading \/ ev.Status = "DOWNLOADING",
                         downloaded |-> @.downloaded \/ ev.Status = "DOWNLOADED"]]
           /\ chans' = [chans EXCEPT ![x].buf = Tail(@)]
           /\ IF ev.Status = "DOWNLOADED"
              THEN /\ spc' = [spc EXCEPT ![x] = "left"]
                   /\ trk' = Cleanup(x)
              ELSE UNCHANGED <<spc, trk>>
    /\ UNCHANGED <<callVars, added>>

\* The handler finds its channel closed and empty, or its request is
\* cancelled: it returns, which runs the cleanup.
SubscriberLeave(x) ==
    /\ spc[x] = "subscribed"
    /\ spc' = [spc EXCEPT ![x] = "left"]
    /\ trk' = Cleanup(x)
    /\ UNCHANGED <<callVars, chans, got, added>>

\* ------------------------------------------------------------------ on-demand specifications

OutsideEpub == <<dbVars, sinkVars, syncRest, pickVars, statVars, auxVars>>

\* One DownloadFile call and the subscribers to its progress.
InitTracker ==
    /\ records = [x \in {} |-> <<>>]
    /\ identifiers = {}
    /\ classifications = {}
    /\ upc = [w \in Workers |-> "idle"]
    /\ urec = [w \in Workers |-> NilRecord]
    /\ uret = [w \in Workers |-> "none"]
    /\ called = {}
    /\ repeated = {}
    /\ ncalls = 0
    /\ syncs = {}
    /\ torrents = [b \in {} |-> NoTorrent]
    /\ now = 0
    /\ mpc = "loop"
    /\ sleepDuration = 0
    /\ wakeAt = 0
    /\ lastSync = NilSync
    /\ picked = NoTorrent
    /\ serr = "none"
    /\ env = [disableSync |-> FALSE, keepFiles |-> FALSE]
    /\ added = {}
    /\ dataDir = "present"
    /\ files = <<>>
    /\ wst = <<>>
    /\ nrec = <<>>
    /\ results = <<>>
    /\ stats = IdleStats
    /\ syncBase = ""
    /\ cache = NoStats
    /\ att = [outcome |-> "none", endSyncs |-> 0, recomputes |-> 0, storeError |-> FALSE]
    /\ inSync = 0
    /\ catalog = <<>>
    /\ latest = NotCalled
    /\ storage \in {"ok", "unset"}
    /\ epubFile = NoFile
    /\ active = NoTracker
    /\ trk = [c \in Callers |-> newDownloadTracker]
    /\ flight = NoCaller
    /\ cpc = [c \in Callers |-> "idle"]
    /\ ctrk = [c \in Callers |-> NoTracker]
    /\ cjoin = [c \in Callers |-> NoCaller]
    /\ fnres = [c \in Callers |-> "none"]
    /\ cres = [c \in Callers |-> "none"]
    /\ dlBytes = 0
    /\ dlLost = FALSE
    /\ ran = {}
    /\ magnets = 0
    /\ peers = [c \in Callers |-> {}]
    /\ cstart = [c \in Callers |-> "none"]
    /\ chans = [x \in Subscribers |-> [buf |-> <<>>, closed |-> FALSE]]
    /\ spc = [x \in Subscribers |-> "none"]
    /\ got = [x \in Subscribers |-> NoEvents]
    /\ muWriter = NoProc
    /\ muReaders = {}
    /\ ppc = [p \in StatProcs |-> "idle"]
    /\ pop = [p \in StatProcs |-> "none"]
    /\ pbuild = [p \in StatProcs |-> NewStats]
    /\ pret = [p \in StatProcs |-> NotCalled]
    /\ pq = [p \in StatProcs |-> FALSE]
    /\ dstatus = "none"
    /\ backing = [a \in Arrays |-> <<>>]
    /\ filesRef = NoArray
    /\ snap = NotCalled
    /\ snapSeen = NotCalled
    /\ isbnCode = <<>>
    /\ isbn13 = NotCalled
    /\ isbn10 = NotCalled
    /\ isbnBack = NotCalled
    /\ held = [w \in Workers |-> {}]
    /\ todo = [w \in Workers |-> <<>>]
    /\ tfiles = <<>>
    /\ sel = NotCalled
    /\ shardIn = [lines |-> <<>>, fragment |-> "", end |-> "eof"]
    /\ spos = 1
    /\ sbusy = FALSE
    /\ sinv = <<>>
    /\ scount = 0
    /\ sres = NotCalled
    /\ orch = "idle"
    /\ wrun = {}
    /\ smpPc = "none"
    /\ doneClosed = FALSE
    /\ tickerC = 0
    /\ nticks = 0
    /\ smpFile = 0
    /\ fileIndex = -1
    /\ calledAt = {}
    /\ wroteAt = {}
    /\ rmu = [writer |-> "none", readers |-> {}]
    /\ rpc = [g \in RegGoroutines |-> "idle"]
    /\ qrun = FALSE
    /\ rsnap = [h \in SnapshotCallers |-> NotCalled]
    /\ tmu = "none"
    /\ tsubs = <<>>
    /\ tprogress = "DOWNLOADING"
    /\ fpc = [g \in FanGoroutines |-> "idle"]
    /\ flocal = [e \in Executions |-> <<>>]
    /\ fch = [x \in FanSubscribers |-> [len |-> 0, closed |-> FALSE]]
    /\ fdrop = [x \in FanSubscribers |-> FALSE]
    /\ fpanic = "none"
    /\ hpc = [c \in Downloads |-> "idle"]
    /\ hctx = [c \in Downloads |-> FALSE]
    /\ hcancelAt = [c \in Downloads |-> "none"]
    /\ htorrent = [added |-> FALSE, info |-> FALSE]
    /\ hhandle = [c \in Downloads |-> "none"]
    /\ hbytes = [c \in Downloads |-> 0]
    /\ hdisk = [c \in Downloads |-> NoFile]
    /\ hres = [c \in Downloads |-> NotCalled]
    /\ hactive = [c \in Downloads |-> FALSE]

NextTracker ==
    \/ DownloadFileCheck(1) /\ UNCHANGED OutsideEpub
    \/ DownloadFileStore(1) /\ UNCHANGED OutsideEpub
    \/ DownloadFileDo(1) /\ UNCHANGED OutsideEpub
    \/ FnCheck(1) /\ UNCHANGED OutsideEpub
    \/ \E ok \in BOOLEAN : InternalAddMagnet(1, ok) /\ UNCHANGED OutsideEpub
    \/ \E found \in BOOLEAN : InternalGotInfo(1, found) /\ UNCHANGED OutsideEpub
    \/ PieceArrives /\ UNCHANGED OutsideEpub
    \/ InternalPoll(1) /\ UNCHANGED OutsideEpub
    \/ InternalLoopExit(1) /\ UNCHANGED OutsideEpub
    \/ \E data \in ReadOutcomes : InternalRead(1, data) /\ UNCHANGED OutsideEpub
    \/ FnComplete(1) /\ UNCHANGED OutsideEpub
    \/ FnDelete(1) /\ UNCHANGED OutsideEpub
    \/ DoRelease(1) /\ UNCHANGED OutsideEpub
    \/ \E x \in Subscribers : SubscribeDownloadProgress(x) /\ UNCHANGED OutsideEpub
    \/ \E x \in Subscribers : SubscriberReceive(x) /\ UNCHANGED OutsideEpub
    \/ \E x \in Subscribers : SubscriberLeave(x) /\ UNCHANGED OutsideEpub
    \/ StatusCall
    \/ StatusAnswered

SpecTracker == InitTracker /\ [][NextTracker]_vars

\* Concurrent DownloadFile calls for one file.
InitEpub ==
    /\ records = [x \in {} |-> <<>>]
    /\ identifiers = {}
    /\ classifications = {}
    /\ upc = [w \in Workers |-> "idle"]
    /\ urec = [w \in Workers |-> NilRecord]
    /\ uret = [w \in Workers |-> "none"]
    /\ called = {}
    /\ repeated = {}
    /\ ncalls = 0
    /\ syncs = {}
    /\ torrents = [b \in {} |-> NoTorrent]
    /\ now = 0
    /\ mpc = "loop"
    /\ sleepDuration = 0
    /\ wakeAt = 0
    /\ lastSync = NilSync
    /\ picked = NoTorrent
    /\ serr = "none"
    /\ env = [disableSync |-> FALSE, keepFiles |-> FALSE]
    /\ added = {}
    /\ dataDir = "present"
    /\ files = <<>>
    /\ wst = <<>>
    /\ nrec = <<>>
    /\ results = <<>>
    /\ stats = IdleStats
    /\ syncBase = ""
    /\ cache = NoStats
    /\ att = [outcome |-> "none", endSyncs |-> 0, recomputes |-> 0, storeError |-> FALSE]
    /\ inSync = 0
    /\ catalog = <<>>
    /\ latest = NotCalled
    /\ storage \in {"ok", "unset", "failing"}
    /\ epubFile \in {NoFile, "bytes"}
    /\ active = NoTracker
    /\ trk = [c \in Callers |-> newDownloadTracker]
    /\ flight = NoCaller
    /\ cpc = [c \in Callers |-> "idle"]
    /\ ctrk = [c \in Callers |-> NoTracker]
    /\ cjoin = [c \in Callers |-> NoCaller]
    /\ fnres = [c \in Callers |-> "none"]
    /\ cres = [c \in Callers |-> "none"]
    /\ dlBytes = 0
    /\ dlLost = FALSE
    /\ ran = {}
    /\ magnets = 0
    /\ peers = [c \in Callers |-> {}]
    /\ cstart = [c \in Callers |-> "none"]
    /\ chans = [x \in Subscribers |-> [buf |-> <<>>, closed |-> FALSE]]
    /\ spc = [x \in Subscribers |-> "none"]
    /\ got = [x \in Subscribers |-> NoEvents]
    /\ muWriter = NoProc
    /\ muReaders = {}
    /\ ppc = [p \in StatProcs |-> "idle"]
    /\ pop = [p \in StatProcs |-> "none"]
    /\ pbuild = [p \in StatProcs |-> NewStats]
    /\ pret = [p \in StatProcs |-> NotCalled]
    /\ pq = [p \in StatProcs |-> FALSE]
    /\ dstatus = "none"
    /\ backing = [a \in Arrays |-> <<>>]
    /\ filesRef = NoArray
    /\ snap = NotCalled
    /\ snapSeen = NotCalled
    /\ isbnCode = <<>>
    /\ isbn13 = NotCalled
    /\ isbn10 = NotCalled
    /\ isbnBack = NotCalled
    /\ held = [w \in Workers |-> {}]
    /\ todo = [w \in Workers |-> <<>>]
    /\ tfiles = <<>>
    /\ sel = NotCalled
    /\ shardIn = [lines |-> <<>>, fragment |-> "", end |-> "eof"]
    /\ spos = 1
    /\ sbusy = FALSE
    /\ sinv = <<>>
    /\ scount = 0
    /\ sres = NotCalled
    /\ orch = "idle"
    /\ wrun = {}
    /\ smpPc = "none"
    /\ doneClosed = FALSE
    /\ tickerC = 0
    /\ nticks = 0
    /\ smpFile = 0
    /\ fileIndex = -1
    /\ calledAt = {}
    /\ wroteAt = {}
    /\ rmu = [writer |-> "none", readers |-> {}]
    /\ rpc = [g \in RegGoroutines |-> "idle"]
    /\ qrun = FALSE
    /\ rsnap = [h \in SnapshotCallers |-> NotCalled]
    /\ tmu = "none"
    /\ tsubs = <<>>
    /\ tprogress = "DOWNLOADING"
    /\ fpc = [g \in FanGoroutines |-> "idle"]
    /\ flocal = [e \in Executions |-> <<>>]
    /\ fch = [x \in FanSubscribers |-> [len |-> 0, closed |-> FALSE]]
    /\ fdrop = [x \in FanSubscribers |-> FALSE]
    /\ fpanic = "none"
    /\ hpc = [c \in Downloads |-> "idle"]
    /\ hctx = [c \in Downloads |-> FALSE]
    /\ hcancelAt = [c \in Downloads |-> "none"]
    /\ htorrent = [added |-> FALSE, info |-> FALSE]
    /\ hhandle = [c \in Downloads |-> "none"]
    /\ hbytes = [c \in Downloads |-> 0]
    /\ hdisk = [c \in Downloads |-> NoFile]
    /\ hres = [c \in Downloads |-> NotCalled]
    /\ hactive = [c \in Downloads |-> FALSE]

NextEpub ==
    \/ \E c \in Callers : DownloadFileCheck(c) /\ UNCHANGED OutsideEpub
    \/ \E c \in Callers : DownloadFileStore(c) /\ UNCHANGED OutsideEpub
    \/ \E c \in Callers : DownloadFileDo(c) /\ UNCHANGED OutsideEpub
    \/ \E c \in Callers : FnCheck(c) /\ UNCHANGED OutsideEpub
    \/ \E c \in Callers, ok \in BOOLEAN : InternalAddMagnet(c, ok) /\ UNCHANGED OutsideEpub
    \/ \E c \in Callers, found \in BOOLEAN : InternalGotInfo(c, found) /\ UNCHANGED OutsideEpub
    \/ PieceArrives /\ UNCHANGED OutsideEpub
    \/ \E c \in Callers : InternalPoll(c) /\ UNCHANGED OutsideEpub
    \/ \E c \in Callers : InternalLoopExit(c) /\ UNCHANGED OutsideEpub
    \/ \E c \in Callers, data \in ReadOutcomes : InternalRead(c, data) /\ UNCHANGED OutsideEpub
    \/ \E c \in Callers : FnComplete(c) /\ UNCHANGED OutsideEpub
    \/ \E c \in Callers : FnDelete(c) /\ UNCHANGED OutsideEpub
    \/ \E c \in Callers : DoRelease(c) /\ UNCHANGED OutsideEpub

SpecEpub == InitEpub /\ [][NextEpub]_vars

\* The catalog of the sync attempt that runs beside the on-demand calls.
LiveCatalog == <<MetaOld, MetaV1, OtherGroup>>

\* Sync is about to call CleanupFiles (os.RemoveAll(DataDir)).
Purges ==
    /\ mpc = "finish"
    /\ \A k \in 1..Len(results) : results[k].Error = "nil"
    /\ ~env.keepFiles

\* A step of the orchestrator beside the on-demand calls: CleanupFiles
\* removes the pieces the client has stored for the on-demand torrent.
SyncBeside(A) ==
    /\ A
    /\ dlLost' = (dlLost \/ (Purges /\ EpubMagnet \in added /\ dlBytes > 0))
    /\ UNCHANGED <<storage, epubFile, active, flight, cpc, ctrk, cjoin, fnres, cres,
                   dlBytes, ran, magnets, peers, cstart, subVars, pickVars,
                   statVars, auxVars>>

\* One DownloadFile call beside one sync attempt; the previous sync, of an
\* older torrent, ended a day ago.
InitShared ==
    /\ records = [x \in {} |-> <<>>]
    /\ identifiers = {}
    /\ classifications = {}
    /\ upc = [w \in Workers |-> "idle"]
    /\ urec = [w \in Workers |-> NilRecord]
    /\ uret = [w \in Workers |-> "none"]
    /\ called = {}
    /\ repeated = {}
    /\ ncalls = 0
    /\ syncs = {[Date |-> 0 - Day, Base |-> MetaOld.DisplayName, Complete |-> TRUE]}
    /\ torrents = [b \in {} |-> NoTorrent]
    /\ now = 0
    /\ mpc = "loop"
    /\ sleepDuration = 0
    /\ wakeAt = 0
    /\ lastSync = NilSync
    /\ picked = NoTorrent
    /\ serr = "none"
    /\ env = [disableSync |-> FALSE, keepFiles |-> FALSE]
    /\ added = {}
    /\ dataDir = "present"
    /\ files = <<>>
    /\ wst = <<>>
    /\ nrec = <<>>
    /\ results = <<>>
    /\ stats = IdleStats
    /\ syncBase = ""
    /\ cache = NoStats
    /\ att = [outcome |-> "none", endSyncs |-> 0, recomputes |-> 0, storeError |-> FALSE]
    /\ inSync = 0
    /\ catalog = <<>>
    /\ latest = NotCalled
    /\ storage = "ok"
    /\ epubFile = NoFile
    /\ active = NoTracker
    /\ trk = [c \in Callers |-> newDownloadTracker]
    /\ flight = NoCaller
    /\ cpc = [c \in Callers |-> "idle"]
    /\ ctrk = [c \in Callers |-> NoTracker]
    /\ cjoin = [c \in Callers |-> NoCaller]
    /\ fnres = [c \in Callers |-> "none"]
    /\ cres = [c \in Callers |-> "none"]
    /\ dlBytes = 0
    /\ dlLost = FALSE
    /\ ran = {}
    /\ magnets = 0
    /\ peers = [c \in Callers |-> {}]
    /\ cstart = [c \in Callers |-> "none"]
    /\ chans = [x \in Subscribers |-> [buf |-> <<>>, closed |-> FALSE]]
    /\ spc = [x \in Subscribers |-> "none"]
    /\ got = [x \in Subscribers |-> NoEvents]
    /\ muWriter = NoProc
    /\ muReaders = {}
    /\ ppc = [p \in StatProcs |-> "idle"]
    /\ pop = [p \in StatProcs |-> "none"]
    /\ pbuild = [p \in StatProcs |-> NewStats]
    /\ pret = [p \in StatProcs |-> NotCalled]
    /\ pq = [p \in StatProcs |-> FALSE]
    /\ dstatus = "none"
    /\ backing = [a \in Arrays |-> <<>>]
    /\ filesRef = NoArray
    /\ snap = NotCalled
    /\ snapSeen = NotCalled
    /\ isbnCode = <<>>
    /\ isbn13 = NotCalled
    /\ isbn10 = NotCalled
    /\ isbnBack = NotCalled
    /\ held = [w \in Workers |-> {}]
    /\ todo = [w \in Workers |-> <<>>]
    /\ tfiles = <<>>
    /\ sel = NotCalled
    /\ shardIn = [lines |-> <<>>, fragment |-> "", end |-> "eof"]
    /\ spos = 1
    /\ sbusy = FALSE
    /\ sinv = <<>>
    /\ scount = 0
    /\ sres = NotCalled
    /\ orch = "idle"
    /\ wrun = {}
    /\ smpPc = "none"
    /\ doneClosed = FALSE
    /\ tickerC = 0
    /\ nticks = 0
    /\ smpFile = 0
    /\ fileIndex = -1
    /\ calledAt = {}
    /\ wroteAt = {}
    /\ rmu = [writer |-> "none", readers |-> {}]
    /\ rpc = [g \in RegGoroutines |-> "idle"]
    /\ qrun = FALSE
    /\ rsnap = [h \in SnapshotCallers |-> NotCalled]
    /\ tmu = "none"
    /\ tsubs = <<>>
    /\ tprogress = "DOWNLOADING"
    /\ fpc = [g \in FanGoroutines |-> "idle"]
    /\ flocal = [e \in Executions |-> <<>>]
    /\ fch = [x \in FanSubscribers |-> [len |-> 0, closed |-> FALSE]]
    /\ fdrop = [x \in FanSubscribers |-> FALSE]
    /\ fpanic = "none"
    /\ hpc = [c \in Downloads |-> "idle"]
    /\ hctx = [c \in Downloads |-> FALSE]
    /\ hcancelAt = [c \in Downloads |-> "none"]
    /\ htorrent = [added |-> FALSE, info |-> FALSE]
    /\ hhandle = [c \in Downloads |-> "none"]
    /\ hbytes = [c \in Downloads |-> 0]
    /\ hdisk = [c \in Downloads |-> NoFile]
    /\ hres = [c \in Downloads |-> NotCalled]
    /\ hactive = [c \in Downloads |-> FALSE]

NextShared ==
    \/ DownloadFileCheck(1) /\ UNCHANGED OutsideEpub
    \/ DownloadFileStore(1) /\ UNCHANGED OutsideEpub
    \/ DownloadFileDo(1) /\ UNCHANGED OutsideEpub
    \/ FnCheck(1) /\ UNCHANGED OutsideEpub
    \/ \E ok \in BOOLEAN : InternalAddMagnet(1, ok) /\ UNCHANGED OutsideEpub
    \/ \E found \in BOOLEAN : InternalGotInfo(1, found) /\ UNCHANGED OutsideEpub
    \/ PieceArrives /\ UNCHANGED OutsideEpub
    \/ InternalPoll(1) /\ UNCHANGED OutsideEpub
    \/ InternalLoopExit(1) /\ UNCHANGED OutsideEpub
    \/ \E data \in ReadOutcomes : InternalRead(1, data) /\ UNCHANGED OutsideEpub
    \/ FnComplete(1) /\ UNCHANGED OutsideEpub
    \/ FnDelete(1) /\ UNCHANGED OutsideEpub
    \/ DoRelease(1) /\ UNCHANGED OutsideEpub
    \/ SyncBeside(MainLoop)
    \/ SyncBeside(MainSleep)
    \/ SyncBeside(SyncAddMagnet(LiveCatalog))
    \/ \E matched \in SUBSET {1} : SyncBeside(DownloadStart(matched))
    \/ \E i \in DOMAIN wst : SyncBeside(WorkerEOF(i, "eof"))
    \/ SyncBeside(DownloadReturn)
    \/ SyncBeside(SyncFinish)
    \/ SyncBeside(MainAfterSync)

SpecShared == InitShared /\ [][NextShared]_vars

\* ------------------------------------------------------------------ stats cache lock

\* Everything but the store, the sync history, the cache and its goroutines.
OutsideStats == <<sinkVars, torrents, now, mpc, sleepDuration, wakeAt, lastSync,
                  picked, serr, env, added, dataDir, files, wst, nrec, results,
                  stats, syncBase, att, inSync, pickVars, epubVars, auxVars>>

\* The same query without its filter.
AnyRows(rows) == rows

\* Where("complete = ?", true): the rows the query of line 60 looks at.
CompleteRows(rows) == {r \in rows : r.Complete}

\* A goroutine inside ComputeAndCacheStats past the lock, lines 56-88.
Computing == {p \in StatProcs : ppc[p] \in {"query", "count", "publish"}}

\* The goroutines that hold the write lock: those past the lock, and the one
\* whose Lock() was granted by the last reader's RUnlock.
HoldsWrite == Computing \cup {p \in StatProcs : ppc[p] = "drain" /\ muReaders = {}}

\* A GetCachedStats that takes its read lock whatever the writers do.
GetCachedStatsAnyway(p) ==
    /\ ppc[p] = "idle"
    /\ p # SyncProc
    /\ pop' = [pop EXCEPT ![p] = "get"]
    /\ pq' = [pq EXCEPT ![p] = FALSE]
    /\ muReaders' = muReaders \cup {p}
    /\ ppc' = [ppc EXCEPT ![p] = "read"]
    /\ pret' = [pret EXCEPT ![p] = NotCalled]
    /\ UNCHANGED <<muWriter, pbuild, cache, syncs, dbVars>>

\* GetCachedStats, lines 36-38: TryRLock fails while a writer owns the lock
\* or has announced itself and waits for the readers to leave.
GetCachedStatsTry(p) ==
    /\ ppc[p] = "idle"
    /\ p # SyncProc
    /\ pop' = [pop EXCEPT ![p] = "get"]
    /\ pq' = [pq EXCEPT ![p] = FALSE]
    /\ IF muWriter # NoProc
       THEN /\ pret' = [pret EXCEPT ![p] = NoStats]
            /\ UNCHANGED <<muReaders, ppc>>
       ELSE /\ muReaders' = muReaders \cup {p}
            /\ ppc' = [ppc EXCEPT ![p] = "read"]
            /\ pret' = [pret EXCEPT ![p] = NotCalled]
    /\ UNCHANGED <<muWriter, pbuild, cache, syncs, dbVars>>

\* GetCachedStats, lines 39-41: return cache.stats, RUnlock.
GetCachedStatsRead(p) ==
    /\ ppc[p] = "read"
    /\ pret' = [pret EXCEPT ![p] = cache]
    /\ muReaders' = muReaders \ {p}
    /\ ppc' = [ppc EXCEPT ![p] = "idle"]
    /\ UNCHANGED <<muWriter, pop, pbuild, pq, cache, syncs, dbVars>>

\* ComputeAndCacheStats whose TryLock always succeeds.
ComputeBeginUnguarded(p, force) ==
    /\ ppc[p] = "idle"
    /\ force <=> p = SyncProc
    /\ pop' = [pop EXCEPT ![p] = IF force THEN "force" ELSE "lazy"]
    /\ pq' = [pq EXCEPT ![p] = FALSE]
    /\ pbuild' = [pbuild EXCEPT ![p] = NewStats]
    /\ pret' = [pret EXCEPT ![p] = NotCalled]
    /\ IF force
       THEN /\ ppc' = [ppc EXCEPT ![p] = "lock"]
            /\ UNCHANGED muWriter
       ELSE /\ muWriter' = p
            /\ ppc' = [ppc EXCEPT ![p] = "query"]
    /\ UNCHANGED <<muReaders, cache, syncs, dbVars>>

\* ComputeAndCacheStats, lines 46-54: force calls Lock(); otherwise TryLock,
\* which fails when the lock has a writer or a reader, and the call returns nil.
ComputeBegin(p, force) ==
    /\ ppc[p] = "idle"
    /\ force <=> p = SyncProc
    /\ pop' = [pop EXCEPT ![p] = IF force THEN "force" ELSE "lazy"]
    /\ pq' = [pq EXCEPT ![p] = FALSE]
    /\ pbuild' = [pbuild EXCEPT ![p] = NewStats]
    /\ IF force
       THEN /\ ppc' = [ppc EXCEPT ![p] = "lock"]
            /\ pret' = [pret EXCEPT ![p] = NotCalled]
            /\ UNCHANGED muWriter
       ELSE IF muWriter = NoProc /\ muReaders = {}
            THEN /\ muWriter' = p
                 /\ ppc' = [ppc EXCEPT ![p] = "query"]
                 /\ pret' = [pret EXCEPT ![p] = NotCalled]
            ELSE /\ pret' = [pret EXCEPT ![p] = NoStats]
                 /\ UNCHANGED <<muWriter, ppc>>
    /\ UNCHANGED <<muReaders, cache, syncs, dbVars>>

\* Lock(), first half: take the writer side; from now on TryRLock fails. The
\* lock is held at once when no reader holds it.
LockWriter(p) ==
    /\ ppc[p] = "lock"
    /\ muWriter = NoProc
    /\ muWriter' = p
    /\ ppc' = [ppc EXCEPT ![p] = IF muReaders = {} THEN "query" ELSE "drain"]
    /\ UNCHANGED <<muReaders, pop, pbuild, pret, pq, cache, syncs, dbVars>>

\* Lock(), second half: the readers that held the lock have left.
LockDrained(p) ==
    /\ ppc[p] = "drain"
    /\ muReaders = {}
    /\ ppc' = [ppc EXCEPT ![p] = "query"]
    /\ UNCHANGED <<muWriter, muReaders, pop, pbuild, pret, pq, cache, syncs, dbVars>>

\* Lines 56-68: the latest complete row; none: return nil (deferred Unlock).
ComputeQuery(p) ==
    /\ ppc[p] = "query"
    /\ pq' = [pq EXCEPT ![p] = TRUE]
    /\ IF CompleteRows(syncs) = {}
       THEN /\ pret' = [pret EXCEPT ![p] = NoStats]
            /\ muWriter' = NoProc
            /\ ppc' = [ppc EXCEPT ![p] = "idle"]
            /\ UNCHANGED pbuild
       ELSE /\ pbuild' = [pbuild EXCEPT ![p].LastSync = LatestRow(CompleteRows(syncs)).Date,
                                         ![p].Base = LatestRow(CompleteRows(syncs)).Base]
            /\ ppc' = [ppc EXCEPT ![p] = "count"]
            /\ UNCHANGED <<pret, muWriter>>
    /\ UNCHANGED <<muReaders, pop, cache, syncs, dbVars>>

\* Lines 70-85: the three counts, into the local stats.
ComputeCount(p) ==
    /\ ppc[p] = "count"
    /\ pbuild' = [pbuild EXCEPT ![p].Count = Cardinality(DOMAIN records),
                                ![p].Identifiers = TypeCounts(identifiers),
                                ![p].Classifications = TypeCounts(classifications)]
    /\ ppc' = [ppc EXCEPT ![p] = "publish"]
    /\ UNCHANGED <<muWriter, muReaders, pop, pret, pq, cache, syncs, dbVars>>

\* Lines 87-88: cache.stats = stats, return it (deferred Unlock).
ComputePublish(p) ==
    /\ ppc[p] = "publish"
    /\ cache' = pbuild[p]
    /\ pret' = [pret EXCEPT ![p] = pbuild[p]]
    /\ pbuild' = [pbuild EXCEPT ![p] = NewStats]
    /\ muWriter' = NoProc
    /\ ppc' = [ppc EXCEPT ![p] = "idle"]
    /\ UNCHANGED <<muReaders, pop, pq, syncs, dbVars>>

\* The rows a sync attempt writes: one of a failed attempt, one of a
\* successful one.
StatRows == { [Date |-> 0, Base |-> MetaV1.DisplayName, Complete |-> FALSE],
              [Date |-> Day, Base |-> MetaV1.DisplayName, Complete |-> TRUE] }

\* Sync writes its Synchronization row.
WriteSyncRow(row) ==
    /\ row \notin syncs
    /\ syncs' = syncs \cup {row}
    /\ UNCHANGED <<statVars, cache, dbVars>>

\* The record the workers store meanwhile.
StatInputs == {r \in Inputs : r # NilRecord /\ r.ID = <<"a">> /\ r.TitleBest = <<"x">>}

\* A shard worker stores one record (a whole call of the sink).
StoreRecord(r) ==
    /\ UpsertRecordAndIdentifiers(DB, r).db # DB
    /\ records' = UpsertRecordAndIdentifiers(DB, r).db.records
    /\ identifiers' = UpsertRecordAndIdentifiers(DB, r).db.identifiers
    /\ classifications' = UpsertRecordAndIdentifiers(DB, r).db.classifications
    /\ UNCHANGED <<statVars, cache, syncs>>

\* The process starts with an empty cache, over whatever history the store holds.
InitStats ==
    /\ records = [x \in {} |-> <<>>]
    /\ identifiers = {}
    /\ classifications = {}
    /\ upc = [w \in Workers |-> "idle"]
    /\ urec = [w \in Workers |-> NilRecord]
    /\ uret = [w \in Workers |-> "none"]
    /\ called = {}
    /\ repeated = {}
    /\ ncalls = 0
    /\ syncs \in SUBSET StatRows
    /\ torrents = [b \in {} |-> NoTorrent]
    /\ now = 0
    /\ mpc = "loop"
    /\ sleepDuration = 0
    /\ wakeAt = 0
    /\ lastSync = NilSync
    /\ picked = NoTorrent
    /\ serr = "none"
    /\ env = [disableSync |-> FALSE, keepFiles |-> FALSE]
    /\ added = {}
    /\ dataDir = "present"
    /\ files = <<>>
    /\ wst = <<>>
    /\ nrec = <<>>
    /\ results = <<>>
    /\ stats = IdleStats
    /\ syncBase = ""
    /\ cache = NoStats
    /\ att = [outcome |-> "none", endSyncs |-> 0, recomputes |-> 0, storeError |-> FALSE]
    /\ inSync = 0
    /\ catalog = <<>>
    /\ latest = NotCalled
    /\ storage = "ok"
    /\ epubFile = NoFile
    /\ active = NoTracker
    /\ trk = [c \in Callers |-> newDownloadTracker]
    /\ flight = NoCaller
    /\ cpc = [c \in Callers |-> "idle"]
    /\ ctrk = [c \in Callers |-> NoTracker]
    /\ cjoin = [c \in Callers |-> NoCaller]
    /\ fnres = [c \in Callers |-> "none"]
    /\ cres = [c \in Callers |-> "none"]
    /\ dlBytes = 0
    /\ dlLost = FALSE
    /\ ran = {}
    /\ magnets = 0
    /\ peers = [c \in Callers |-> {}]
    /\ cstart = [c \in Callers |-> "none"]
    /\ chans = [x \in Subscribers |-> [buf |-> <<>>, closed |-> FALSE]]
    /\ spc = [x \in Subscribers |-> "none"]
    /\ got = [x \in Subscribers |-> NoEvents]
    /\ muWriter = NoProc
    /\ muReaders = {}
    /\ ppc = [p \in StatProcs |-> "idle"]
    /\ pop = [p \in StatProcs |-> "none"]
    /\ pbuild = [p \in StatProcs |-> NewStats]
    /\ pret = [p \in StatProcs |-> NotCalled]
    /\ pq = [p \in StatProcs |-> FALSE]
    /\ dstatus = "none"
    /\ backing = [a \in Arrays |-> <<>>]
    /\ filesRef = NoArray
    /\ snap = NotCalled
    /\ snapSeen = NotCalled
    /\ isbnCode = <<>>
    /\ isbn13 = NotCalled
    /\ isbn10 = NotCalled
    /\ isbnBack = NotCalled
    /\ held = [w \in Workers |-> {}]
    /\ todo = [w \in Workers |-> <<>>]
    /\ tfiles = <<>>
    /\ sel = NotCalled
    /\ shardIn = [lines |-> <<>>, fragment |-> "", end |-> "eof"]
    /\ spos = 1
    /\ sbusy = FALSE
    /\ sinv = <<>>
    /\ scount = 0
    /\ sres = NotCalled
    /\ orch = "idle"
    /\ wrun = {}
    /\ smpPc = "none"
    /\ doneClosed = FALSE
    /\ tickerC = 0
    /\ nticks = 0
    /\ smpFile = 0
    /\ fileIndex = -1
    /\ calledAt = {}
    /\ wroteAt = {}
    /\ rmu = [writer |-> "none", readers |-> {}]
    /\ rpc = [g \in RegGoroutines |-> "idle"]
    /\ qrun = FALSE
    /\ rsnap = [h \in SnapshotCallers |-> NotCalled]
    /\ tmu = "none"
    /\ tsubs = <<>>
    /\ tprogress = "DOWNLOADING"
    /\ fpc = [g \in FanGoroutines |-> "idle"]
    /\ flocal = [e \in Executions |-> <<>>]
    /\ fch = [x \in FanSubscribers |-> [len |-> 0, closed |-> FALSE]]
    /\ fdrop = [x \in FanSubscribers |-> FALSE]
    /\ fpanic = "none"
    /\ hpc = [c \in Downloads |-> "idle"]
    /\ hctx = [c \in Downloads |-> FALSE]
    /\ hcancelAt = [c \in Downloads |-> "none"]
    /\ htorrent = [added |-> FALSE, info |-> FALSE]
    /\ hhandle = [c \in Downloads |-> "none"]
    /\ hbytes = [c \in Downloads |-> 0]
    /\ hdisk = [c \in Downloads |-> NoFile]
    /\ hres = [c \in Downloads |-> NotCalled]
    /\ hactive = [c \in Downloads |-> FALSE]

NextStats ==
    \/ \E p \in StatProcs : GetCachedStatsTry(p) /\ UNCHANGED OutsideStats
    \/ \E p \in StatProcs : GetCachedStatsRead(p) /\ UNCHANGED OutsideStats
    \/ \E p \in StatProcs, force \in BOOLEAN : ComputeBegin(p, force) /\ UNCHANGED OutsideStats
    \/ \E p \in StatProcs : LockWriter(p) /\ UNCHANGED OutsideStats
    \/ \E p \in StatProcs : LockDrained(p) /\ UNCHANGED OutsideStats
    \/ \E p \in StatProcs : ComputeQuery(p) /\ UNCHANGED OutsideStats
    \/ \E p \in StatProcs : ComputeCount(p) /\ UNCHANGED OutsideStats
    \/ \E p \in StatProcs : ComputePublish(p) /\ UNCHANGED OutsideStats
    \/ \E row \in StatRows : WriteSyncRow(row) /\ UNCHANGED OutsideStats
    \/ \E r \in StatInputs : StoreRecord(r) /\ UNCHANGED OutsideStats

SpecStats == InitStats /\ [][NextStats]_vars

\* ------------------------------------------------------------------ progress registry: handlers

\* Progress values the workers report.
Percents == {100}

OutsideRegistry == <<dbVars, sinkVars, syncs, torrents, now, mpc, sleepDuration, wakeAt,
                     lastSync, picked, serr, env, added, dataDir, files, wst, nrec,
                     results, syncBase, att, inSync, pickVars, epubVars, statVars,
                     dstatus, isbnVars, lockVars, selVars, shardVars, tailVars>>

\* make([]FileProgress, n) returns an array nothing else points to.
FreshArray ==
    CHOOSE a \in Arrays : snap = NotCalled \/ snap.Files.array # a

\* An array no slice points to any more is collected.
Collected(b, ref, kept) ==
    [a \in Arrays |-> IF a = ref \/ a = kept THEN b[a] ELSE <<>>]

HeldArray == IF snap = NotCalled THEN NoArray ELSE snap.Files.array

\* SyncStats.StartSync: a new Files slice with one zeroed entry per file.
RegStartSync(base, paths) ==
    /\ stats' = StartSync(base, paths)
    /\ filesRef' = FreshArray
    /\ backing' = Collected([backing EXCEPT ![FreshArray] = StartSync(base, paths).Files],
                            FreshArray, HeldArray)
    /\ UNCHANGED <<cache, snap, snapSeen>>

\* The index check both updates make; index counts from 0.
InRange(index) ==
    /\ filesRef # NoArray
    /\ index >= 0
    /\ index < Len(backing[filesRef])

\* SyncStats.UpdateFileDownload: writes the entry in place.
UpdateFileDownload(index, percent) ==
    /\ InRange(index)
    /\ backing' = [backing EXCEPT ![filesRef][index + 1].Downloaded = percent]
    /\ stats' = [stats EXCEPT !.Files[index + 1].Downloaded = percent]
    /\ UNCHANGED <<cache, filesRef, snap, snapSeen>>

\* SyncStats.UpdateFileProcessed: writes the entry in place.
UpdateFileProcessed(index, percent) ==
    /\ InRange(index)
    /\ backing' = [backing EXCEPT ![filesRef][index + 1].Processed = percent]
    /\ stats' = [stats EXCEPT !.Files[index + 1].Processed = percent]
    /\ UNCHANGED <<cache, filesRef, snap, snapSeen>>

\* SyncStats.EndSync: Files = nil, then the forced stats recompute.
RegEndSync ==
    /\ EndSync(syncs)
    /\ filesRef' = NoArray
    /\ backing' = Collected(backing, NoArray, HeldArray)
    /\ UNCHANGED <<snap, snapSeen>>

\* What a SyncStats value reads as: its Files are the first len entries of
\* the array its slice header points to.
ReadStats(v, b) ==
    [IsRunning |-> v.IsRunning, Base |-> v.Base,
     Files |-> IF v.Files.array = NoArray THEN <<>>
               ELSE SubSeq(b[v.Files.array], 1, v.Files.len)]

\* GetStats: `return *stats`, which copies the struct field by field; the
\* Files field is a slice header (array, len).
GetStats ==
    /\ snap = NotCalled
    /\ snap' = [IsRunning |-> stats.IsRunning, Base |-> stats.Base,
                Files |-> [array |-> filesRef,
                           len |-> IF filesRef = NoArray THEN 0
                                   ELSE Len(backing[filesRef])]]
    /\ snapSeen' = ReadStats(snap', backing)
    /\ UNCHANGED <<stats, cache, backing, filesRef>>

\* The registry under the calls of a sync and of the stats handler.
InitRegistry ==
    /\ records = [x \in {} |-> <<>>]
    /\ identifiers = {}
    /\ classifications = {}
    /\ upc = [w \in Workers |-> "idle"]
    /\ urec = [w \in Workers |-> NilRecord]
    /\ uret = [w \in Workers |-> "none"]
    /\ called = {}
    /\ repeated = {}
    /\ ncalls = 0
    /\ syncs = StatRows
    /\ torrents = [b \in {} |-> NoTorrent]
    /\ now = 0
    /\ mpc = "loop"
    /\ sleepDuration = 0
    /\ wakeAt = 0
    /\ lastSync = NilSync
    /\ picked = NoTorrent
    /\ serr = "none"
    /\ env = [disableSync |-> FALSE, keepFiles |-> FALSE]
    /\ added = {}
    /\ dataDir = "present"
    /\ files = <<>>
    /\ wst = <<>>
    /\ nrec = <<>>
    /\ results = <<>>
    /\ stats = IdleStats
    /\ syncBase = ""
    /\ cache = NoStats
    /\ att = [outcome |-> "none", endSyncs |-> 0, recomputes |-> 0, storeError |-> FALSE]
    /\ inSync = 0
    /\ catalog = <<>>
    /\ latest = NotCalled
    /\ storage = "ok"
    /\ epubFile = NoFile
    /\ active = NoTracker
    /\ trk = [c \in Callers |-> newDownloadTracker]
    /\ flight = NoCaller
    /\ cpc = [c \in Callers |-> "idle"]
    /\ ctrk = [c \in Callers |-> NoTracker]
    /\ cjoin = [c \in Callers |-> NoCaller]
    /\ fnres = [c \in Callers |-> "none"]
    /\ cres = [c \in Callers |-> "none"]
    /\ dlBytes = 0
    /\ dlLost = FALSE
    /\ ran = {}
    /\ magnets = 0
    /\ peers = [c \in Callers |-> {}]
    /\ cstart = [c \in Callers |-> "none"]
    /\ chans = [x \in Subscribers |-> [buf |-> <<>>, closed |-> FALSE]]
    /\ spc = [x \in Subscribers |-> "none"]
    /\ got = [x \in Subscribers |-> NoEvents]
    /\ muWriter = NoProc
    /\ muReaders = {}
    /\ ppc = [p \in StatProcs |-> "idle"]
    /\ pop = [p \in StatProcs |-> "none"]
    /\ pbuild = [p \in StatProcs |-> NewStats]
    /\ pret = [p \in StatProcs |-> NotCalled]
    /\ pq = [p \in StatProcs |-> FALSE]
    /\ dstatus = "none"
    /\ backing = [a \in Arrays |-> <<>>]
    /\ filesRef = NoArray
    /\ snap = NotCalled
    /\ snapSeen = NotCalled
    /\ isbnCode = <<>>
    /\ isbn13 = NotCalled
    /\ isbn10 = NotCalled
    /\ isbnBack = NotCalled
    /\ held = [w \in Workers |-> {}]
    /\ todo = [w \in Workers |-> <<>>]
    /\ tfiles = <<>>
    /\ sel = NotCalled
    /\ shardIn = [lines |-> <<>>, fragment |-> "", end |-> "eof"]
    /\ spos = 1
    /\ sbusy = FALSE
    /\ sinv = <<>>
    /\ scount = 0
    /\ sres = NotCalled
    /\ orch = "idle"
    /\ wrun = {}
    /\ smpPc = "none"
    /\ doneClosed = FALSE
    /\ tickerC = 0
    /\ nticks = 0
    /\ smpFile = 0
    /\ fileIndex = -1
    /\ calledAt = {}
    /\ wroteAt = {}
    /\ rmu = [writer |-> "none", readers |-> {}]
    /\ rpc = [g \in RegGoroutines |-> "idle"]
    /\ qrun = FALSE
    /\ rsnap = [h \in SnapshotCallers |-> NotCalled]
    /\ tmu = "none"
    /\ tsubs = <<>>
    /\ tprogress = "DOWNLOADING"
    /\ fpc = [g \in FanGoroutines |-> "idle"]
    /\ flocal = [e \in Executions |-> <<>>]
    /\ fch = [x \in FanSubscribers |-> [len |-> 0, closed |-> FALSE]]
    /\ fdrop = [x \in FanSubscribers |-> FALSE]
    /\ fpanic = "none"
    /\ hpc = [c \in Downloads |-> "idle"]
    /\ hctx = [c \in Downloads |-> FALSE]
    /\ hcancelAt = [c \in Downloads |-> "none"]
    /\ htorrent = [added |-> FALSE, info |-> FALSE]
    /\ hhandle = [c \in Downloads |-> "none"]
    /\ hbytes = [c \in Downloads |-> 0]
    /\ hdisk = [c \in Downloads |-> NoFile]
    /\ hres = [c \in Downloads |-> NotCalled]
    /\ hactive = [c \in Downloads |-> FALSE]

NextRegistry ==
    \/ \E n \in 0..MaxShards :
          RegStartSync(MetaV1.DisplayName, Ascending(1..n)) /\ UNCHANGED OutsideRegistry
    \/ \E index \in 0..MaxShards, percent \in Percents :
          UpdateFileDownload(index, percent) /\ UNCHANGED OutsideRegistry
    \/ \E index \in 0..MaxShards, percent \in Percents :
          UpdateFileProcessed(index, percent) /\ UNCHANGED OutsideRegistry
    \/ RegEndSync /\ UNCHANGED OutsideRegistry
    \/ GetStats /\ UNCHANGED OutsideRegistry

SpecRegistry == InitRegistry /\ [][NextRegistry]_vars

\* ------------------------------------------------------------------ ISBN conversion

\* strconv.Itoa of a check value below ten.
Itoa(n) ==
    CASE n = 0 -> <<"0">> [] n = 1 -> <<"1">> [] n = 2 -> <<"2">> [] n = 3 -> <<"3">>
      [] n = 4 -> <<"4">> [] n = 5 -> <<"5">> [] n = 6 -> <<"6">> [] n = 7 -> <<"7">>
      [] n = 8 -> <<"8">> [] n = 9 -> <<"9">>

\* strconv.Atoi(string(c)) returns an error for every one-character string
\* that is not a decimal digit (a lone sign included).
AtoiFails(c) == ~IsDigit(c)

\* The weighted sum of the loop `for i, c := range base`, i counting from 0.
RECURSIVE WeightedSum(_, _, _)
WeightedSum(base, i, weight) ==
    IF i = Len(base) THEN 0
    ELSE DigitVal(base[i + 1]) * weight[i] + WeightedSum(base, i + 1, weight)

\* isbn.To13
To13(isbn10s) ==
    IF Len(isbn10s) # 10 THEN <<>>
    ELSE LET base == <<"9", "7", "8">> \o SubSeq(isbn10s, 1, 9)
             sum == WeightedSum(base, 0, [i \in 0..11 |-> IF i % 2 = 0 THEN 1 ELSE 3])
             check == (10 - (sum % 10)) % 10
         IN  IF \E i \in 1..Len(base) : AtoiFails(base[i]) THEN <<>>
             ELSE base \o Itoa(check)

\* isbn.To10 with the check value ten printed by Itoa like the others.
To10NoX(isbn13s) ==
    IF Len(isbn13s) # 13 \/ SubSeq(isbn13s, 1, 3) # <<"9", "7", "8">> THEN <<>>
    ELSE LET base == SubSeq(isbn13s, 4, 12)
             sum == WeightedSum(base, 0, [i \in 0..8 |-> 10 - i])
             check == (11 - (sum % 11)) % 11
         IN  IF \E i \in 1..Len(base) : AtoiFails(base[i]) THEN <<>>
             ELSE IF check = 10 THEN base \o <<"1", "0">>
             ELSE base \o Itoa(check)

\* isbn.To10
To10(isbn13s) ==
    IF Len(isbn13s) # 13 \/ SubSeq(isbn13s, 1, 3) # <<"9", "7", "8">> THEN <<>>
    ELSE LET base == SubSeq(isbn13s, 4, 12)
             sum == WeightedSum(base, 0, [i \in 0..8 |-> 10 - i])
             check == (11 - (sum % 11)) % 11
         IN  IF \E i \in 1..Len(base) : AtoiFails(base[i]) THEN <<>>
             ELSE IF check = 10 THEN base \o <<"X">>
             ELSE base \o Itoa(check)

\* The characters identifier values are drawn from, and those of a check
\* position.
IsbnChars == {"0", "3", "7", "9", "X"}
CheckChars == {"0", "1", "2", "3", "4", "5", "6", "7", "8", "9", "X", "a"}

\* The ISBN-10 of the package's tests; its first characters start every input.
Known10 == <<"0", "3", "0", "6", "4", "0", "6", "1", "5", "2">>

\* How many characters before the check position vary.
IsbnFree == 2

\* Ten-character values: the known start, IsbnFree free characters and a
\* check position.
Tens ==
    {SubSeq(Known10, 1, 9 - IsbnFree) \o f \o <<c>> :
        f \in [1..IsbnFree -> IsbnChars], c \in CheckChars}

\* What a search may be asked for: ten-character values, values one character
\* short or long, thirteen-character values with three prefixes, the strings
\* of the package's tests.
IsbnInputs ==
    Tens
    \cup {SubSeq(x, 1, 9) : x \in Tens}
    \cup {x \o <<"0">> : x \in Tens}
    \cup {p \o x : p \in {<<"9", "7", "8">>, <<"9", "7", "9">>, <<"0", "7", "8">>}, x \in Tens}
    \cup {<<"9", "7", "8">> \o SubSeq(x, 1, 9) : x \in Tens}
    \cup {<<>>, <<"1", "2", "3">>, Known10, <<"9", "7", "8">> \o SubSeq(Known10, 1, 9) \o <<"7">>,
          <<"a", "b", "c", "d", "e", "f", "g", "h", "i", "j">>,
          <<"9", "7", "8", "a", "b", "c", "d", "e", "f", "g", "h", "i">>,
          <<"0", "2", "0", "1", "6", "1", "6", "2", "2", "X">>,
          <<"0", "1", "4", "0", "4", "4", "9", "1", "1", "6">>}

OutsideIsbn == <<dbVars, sinkVars, syncVars, pickVars, epubVars, statVars, dstatus, regVars, lockVars, selVars, shardVars, tailVars>>

\* A caller converts the value it holds (searchByISBN and its tests).
CallTo13 ==
    /\ isbn13 = NotCalled
    /\ isbn13' = [ret |-> To13(isbnCode)]
    /\ UNCHANGED <<isbnCode, isbn10, isbnBack>>

CallTo10 ==
    /\ isbn10 = NotCalled
    /\ isbn10' = [ret |-> To10(isbnCode)]
    /\ UNCHANGED <<isbnCode, isbn13, isbnBack>>

\* To10(To13(x)) of the round-trip test.
CallBack ==
    /\ isbn13 # NotCalled
    /\ isbnBack = NotCalled
    /\ isbnBack' = [ret |-> To10(isbn13.ret)]
    /\ UNCHANGED <<isbnCode, isbn13, isbn10>>

InitIsbn ==
    /\ records = [x \in {} |-> <<>>]
    /\ identifiers = {}
    /\ classifications = {}
    /\ upc = [w \in Workers |-> "idle"]
    /\ urec = [w \in Workers |-> NilRecord]
    /\ uret = [w \in Workers |-> "none"]
    /\ called = {}
    /\ repeated = {}
    /\ ncalls = 0
    /\ syncs = {}
    /\ torrents = [b \in {} |-> NoTorrent]
    /\ now = 0
    /\ mpc = "loop"
    /\ sleepDuration = 0
    /\ wakeAt = 0
    /\ lastSync = NilSync
    /\ picked = NoTorrent
    /\ serr = "none"
    /\ env = [disableSync |-> FALSE, keepFiles |-> FALSE]
    /\ added = {}
    /\ dataDir = "present"
    /\ files = <<>>
    /\ wst = <<>>
    /\ nrec = <<>>
    /\ results = <<>>
    /\ stats = IdleStats
    /\ syncBase = ""
    /\ cache = NoStats
    /\ att = [outcome |-> "none", endSyncs |-> 0, recomputes |-> 0, storeError |-> FALSE]
    /\ inSync = 0
    /\ catalog = <<>>
    /\ latest = NotCalled
    /\ storage = "ok"
    /\ epubFile = NoFile
    /\ active = NoTracker
    /\ trk = [c \in Callers |-> newDownloadTracker]
    /\ flight = NoCaller
    /\ cpc = [c \in Callers |-> "idle"]
    /\ ctrk = [c \in Callers |-> NoTracker]
    /\ cjoin = [c \in Callers |-> NoCaller]
    /\ fnres = [c \in Callers |-> "none"]
    /\ cres = [c \in Callers |-> "none"]
    /\ dlBytes = 0
    /\ dlLost = FALSE
    /\ ran = {}
    /\ magnets = 0
    /\ peers = [c \in Callers |-> {}]
    /\ cstart = [c \in Callers |-> "none"]
    /\ chans = [x \in Subscribers |-> [buf |-> <<>>, closed |-> FALSE]]
    /\ spc = [x \in Subscribers |-> "none"]
    /\ got = [x \in Subscribers |-> NoEvents]
    /\ muWriter = NoProc
    /\ muReaders = {}
    /\ ppc = [p \in StatProcs |-> "idle"]
    /\ pop = [p \in StatProcs |-> "none"]
    /\ pbuild = [p \in StatProcs |-> NewStats]
    /\ pret = [p \in StatProcs |-> NotCalled]
    /\ pq = [p \in StatProcs |-> FALSE]
    /\ dstatus = "none"
    /\ backing = [a \in Arrays |-> <<>>]
    /\ filesRef = NoArray
    /\ snap = NotCalled
    /\ snapSeen = NotCalled
    /\ isbnCode \in IsbnInputs
    /\ isbn13 = NotCalled
    /\ isbn10 = NotCalled
    /\ isbnBack = NotCalled
    /\ held = [w \in Workers |-> {}]
    /\ todo = [w \in Workers |-> <<>>]
    /\ tfiles = <<>>
    /\ sel = NotCalled
    /\ shardIn = [lines |-> <<>>, fragment |-> "", end |-> "eof"]
    /\ spos = 1
    /\ sbusy = FALSE
    /\ sinv = <<>>
    /\ scount = 0
    /\ sres = NotCalled
    /\ orch = "idle"
    /\ wrun = {}
    /\ smpPc = "none"
    /\ doneClosed = FALSE
    /\ tickerC = 0
    /\ nticks = 0
    /\ smpFile = 0
    /\ fileIndex = -1
    /\ calledAt = {}
    /\ wroteAt = {}
    /\ rmu = [writer |-> "none", readers |-> {}]
    /\ rpc = [g \in RegGoroutines |-> "idle"]
    /\ qrun = FALSE
    /\ rsnap = [h \in SnapshotCallers |-> NotCalled]
    /\ tmu = "none"
    /\ tsubs = <<>>
    /\ tprogress = "DOWNLOADING"
    /\ fpc = [g \in FanGoroutines |-> "idle"]
    /\ flocal = [e \in Executions |-> <<>>]
    /\ fch = [x \in FanSubscribers |-> [len |-> 0, closed |-> FALSE]]
    /\ fdrop = [x \in FanSubscribers |-> FALSE]
    /\ fpanic = "none"
    /\ hpc = [c \in Downloads |-> "idle"]
    /\ hctx = [c \in Downloads |-> FALSE]
    /\ hcancelAt = [c \in Downloads |-> "none"]
    /\ htorrent = [added |-> FALSE, info |-> FALSE]
    /\ hhandle = [c \in Downloads |-> "none"]
    /\ hbytes = [c \in Downloads |-> 0]
    /\ hdisk = [c \in Downloads |-> NoFile]
    /\ hres = [c \in Downloads |-> NotCalled]
    /\ hactive = [c \in Downloads |-> FALSE]

NextIsbn ==
    \/ CallTo13 /\ UNCHANGED OutsideIsbn
    \/ CallTo10 /\ UNCHANGED OutsideIsbn
    \/ CallBack /\ UNCHANGED OutsideIsbn

SpecIsbn == InitIsbn /\ [][NextIsbn]_vars

\* ------------------------------------------------------------------ record sink: concurrent statements

\* Two epubs of one id that differ in every parent column and carry the same
\* two identifiers (the second with an empty description), and an epub of
\* another id.
ConflictInputs ==
    { AnnaRecord(<<"a">>, "epub", <<"x">>, <<"7">>, <<"s">>,
                 [t \in {<<"i">>, <<"d">>} |-> << <<"7">> >>], NoChildren),
      AnnaRecord(<<"a">>, "epub", <<"y">>, <<"8">>, <<>>,
                 [t \in {<<"i">>, <<"d">>} |-> << <<"7">> >>], NoChildren),
      AnnaRecord(<<"c">>, "epub", <<"x">>, <<"7">>, <<>>,
                 OneType(<<"i">>, << <<"7">> >>), NoChildren) }

\* The child row a slot of the map stands for.
SlotRow(r, m, slot) == <<RecordID(r), sanitizeString(slot[1]), sanitizeString(m[slot[1]][slot[2]])>>

\* The orders in which `for identifierType, values := range m` can append the
\* rows: the types in any order (Go does not fix the iteration order of a
\* map), the values of one type in list order.
BatchOrders(r, m) ==
    {q \in [1..Cardinality(BatchSlots(m)) -> BatchSlots(m)] :
        /\ \A s \in BatchSlots(m) : \E k \in DOMAIN q : q[k] = s
        /\ \A j, k \in DOMAIN q :
              (j < k /\ q[j][1] = q[k][1]) =>
                 /\ q[j][2] < q[k][2]
                 /\ \A n \in j..k : q[n][1] = q[j][1]}

OutsideConflict == <<syncVars, pickVars, epubVars, statVars, dstatus, regVars, isbnVars, selVars, shardVars, tailVars>>

\* The identifier statement starts: no rows (the statement is skipped), a key
\* proposed twice (rejected), or the rows in the order the map gave them.
IdentifiersStart(w, order) ==
    /\ upc[w] = "identifiers"
    /\ LET r == urec[w]
           m == r.IdentifiersUnified
       IN  /\ order \in BatchOrders(r, m)
           /\ IF BatchSlots(m) = {}
              THEN /\ upc' = [upc EXCEPT ![w] = "classifications"]
                   /\ UNCHANGED <<uret, urec, todo>>
              ELSE IF BatchRejected(r, m)
              THEN /\ upc' = [upc EXCEPT ![w] = "idle"]
                   /\ uret' = [uret EXCEPT ![w] = "identifiers"]
                   /\ urec' = [urec EXCEPT ![w] = NilRecord]
                   /\ UNCHANGED todo
              ELSE /\ upc' = [upc EXCEPT ![w] = "rows"]
                   /\ todo' = [todo EXCEPT ![w] = [k \in DOMAIN order |-> SlotRow(r, m, order[k])]]
                   /\ UNCHANGED <<uret, urec>>
    /\ UNCHANGED <<dbVars, called, repeated, ncalls, held>>

\* w's statement needs a row that v's running statement has written: the
\* database makes w wait until v's statement ends.
WaitsFor(w, v) ==
    /\ w # v
    /\ upc[w] = "rows"
    /\ todo[w] # <<>>
    /\ Head(todo[w]) \in held[v]

\* The statement writes its next row (insert, or update of the conflicting
\* row) and keeps it locked until the statement ends.
RowWrite(w) ==
    /\ upc[w] = "rows"
    /\ todo[w] # <<>>
    /\ \A v \in Workers : ~WaitsFor(w, v)
    /\ held' = [held EXCEPT ![w] = @ \cup {Head(todo[w])}]
    /\ todo' = [todo EXCEPT ![w] = Tail(@)]
    /\ UNCHANGED <<dbVars, sinkVars>>

\* The statement ends (autocommit): its rows are in the table, its locks gone.
StatementCommit(w) ==
    /\ upc[w] = "rows"
    /\ todo[w] = <<>>
    /\ identifiers' = identifiers \cup held[w]
    /\ held' = [held EXCEPT ![w] = {}]
    /\ upc' = [upc EXCEPT ![w] = "classifications"]
    /\ UNCHANGED <<records, classifications, urec, uret, called, repeated, ncalls, todo>>

\* w waits in a cycle of waiting statements.
Deadlocked(w) ==
    \E v \in Workers :
        /\ WaitsFor(w, v)
        /\ \/ WaitsFor(v, w)
           \/ \E u \in Workers : WaitsFor(v, u) /\ WaitsFor(u, w)

\* The database breaks the cycle by failing one of its statements ("deadlock
\* detected"): it writes nothing, and the call returns "failed to upsert
\* identifiers".
DeadlockAbort(w) ==
    /\ Deadlocked(w)
    /\ held' = [held EXCEPT ![w] = {}]
    /\ todo' = [todo EXCEPT ![w] = <<>>]
    /\ upc' = [upc EXCEPT ![w] = "idle"]
    /\ uret' = [uret EXCEPT ![w] = "identifiers"]
    /\ urec' = [urec EXCEPT ![w] = NilRecord]
    /\ UNCHANGED <<dbVars, called, repeated, ncalls>>

\* Upserts by the shard workers, the identifier statement taken row by row.
InitConflict ==
    /\ records = [x \in {} |-> <<>>]
    /\ identifiers = {}
    /\ classifications = {}
    /\ upc = [w \in Workers |-> "idle"]
    /\ urec = [w \in Workers |-> NilRecord]
    /\ uret = [w \in Workers |-> "none"]
    /\ called = {}
    /\ repeated = {}
    /\ ncalls = 0
    /\ syncs = {}
    /\ torrents = [b \in {} |-> NoTorrent]
    /\ now = 0
    /\ mpc = "loop"
    /\ sleepDuration = 0
    /\ wakeAt = 0
    /\ lastSync = NilSync
    /\ picked = NoTorrent
    /\ serr = "none"
    /\ env = [disableSync |-> FALSE, keepFiles |-> FALSE]
    /\ added = {}
    /\ dataDir = "present"
    /\ files = <<>>
    /\ wst = <<>>
    /\ nrec = <<>>
    /\ results = <<>>
    /\ stats = IdleStats
    /\ syncBase = ""
    /\ cache = NoStats
    /\ att = [outcome |-> "none", endSyncs |-> 0, recomputes |-> 0, storeError |-> FALSE]
    /\ inSync = 0
    /\ catalog = <<>>
    /\ latest = NotCalled
    /\ storage = "ok"
    /\ epubFile = NoFile
    /\ active = NoTracker
    /\ trk = [c \in Callers |-> newDownloadTracker]
    /\ flight = NoCaller
    /\ cpc = [c \in Callers |-> "idle"]
    /\ ctrk = [c \in Callers |-> NoTracker]
    /\ cjoin = [c \in Callers |-> NoCaller]
    /\ fnres = [c \in Callers |-> "none"]
    /\ cres = [c \in Callers |-> "none"]
    /\ dlBytes = 0
    /\ dlLost = FALSE
    /\ ran = {}
    /\ magnets = 0
    /\ peers = [c \in Callers |-> {}]
    /\ cstart = [c \in Callers |-> "none"]
    /\ chans = [x \in Subscribers |-> [buf |-> <<>>, closed |-> FALSE]]
    /\ spc = [x \in Subscribers |-> "none"]
    /\ got = [x \in Subscribers |-> NoEvents]
    /\ muWriter = NoProc
    /\ muReaders = {}
    /\ ppc = [p \in StatProcs |-> "idle"]
    /\ pop = [p \in StatProcs |-> "none"]
    /\ pbuild = [p \in StatProcs |-> NewStats]
    /\ pret = [p \in StatProcs |-> NotCalled]
    /\ pq = [p \in StatProcs |-> FALSE]
    /\ dstatus = "none"
    /\ backing = [a \in Arrays |-> <<>>]
    /\ filesRef = NoArray
    /\ snap = NotCalled
    /\ snapSeen = NotCalled
    /\ isbnCode = <<>>
    /\ isbn13 = NotCalled
    /\ isbn10 = NotCalled
    /\ isbnBack = NotCalled
    /\ held = [w \in Workers |-> {}]
    /\ todo = [w \in Workers |-> <<>>]
    /\ tfiles = <<>>
    /\ sel = NotCalled
    /\ shardIn = [lines |-> <<>>, fragment |-> "", end |-> "eof"]
    /\ spos = 1
    /\ sbusy = FALSE
    /\ sinv = <<>>
    /\ scount = 0
    /\ sres = NotCalled
    /\ orch = "idle"
    /\ wrun = {}
    /\ smpPc = "none"
    /\ doneClosed = FALSE
    /\ tickerC = 0
    /\ nticks = 0
    /\ smpFile = 0
    /\ fileIndex = -1
    /\ calledAt = {}
    /\ wroteAt = {}
    /\ rmu = [writer |-> "none", readers |-> {}]
    /\ rpc = [g \in RegGoroutines |-> "idle"]
    /\ qrun = FALSE
    /\ rsnap = [h \in SnapshotCallers |-> NotCalled]
    /\ tmu = "none"
    /\ tsubs = <<>>
    /\ tprogress = "DOWNLOADING"
    /\ fpc = [g \in FanGoroutines |-> "idle"]
    /\ flocal = [e \in Executions |-> <<>>]
    /\ fch = [x \in FanSubscribers |-> [len |-> 0, closed |-> FALSE]]
    /\ fdrop = [x \in FanSubscribers |-> FALSE]
    /\ fpanic = "none"
    /\ hpc = [c \in Downloads |-> "idle"]
    /\ hctx = [c \in Downloads |-> FALSE]
    /\ hcancelAt = [c \in Downloads |-> "none"]
    /\ htorrent = [added |-> FALSE, info |-> FALSE]
    /\ hhandle = [c \in Downloads |-> "none"]
    /\ hbytes = [c \in Downloads |-> 0]
    /\ hdisk = [c \in Downloads |-> NoFile]
    /\ hres = [c \in Downloads |-> NotCalled]
    /\ hactive = [c \in Downloads |-> FALSE]

NextConflict ==
    \/ \E w \in Workers, r \in ConflictInputs :
          UpsertBegin(w, r) /\ UNCHANGED <<lockVars, OutsideConflict>>
    \/ \E w \in {v \in Workers : upc[v] = "identifiers"} :
          \E order \in BatchOrders(urec[w], urec[w].IdentifiersUnified) :
             IdentifiersStart(w, order) /\ UNCHANGED OutsideConflict
    \/ \E w \in Workers : RowWrite(w) /\ UNCHANGED OutsideConflict
    \/ \E w \in Workers : StatementCommit(w) /\ UNCHANGED OutsideConflict
    \/ \E w \in Workers : DeadlockAbort(w) /\ UNCHANGED OutsideConflict
    \/ \E w \in Workers :
          UpsertClassifications(w) /\ UNCHANGED <<lockVars, OutsideConflict>>

SpecConflict == InitConflict /\ [][NextConflict]_vars

\* ------------------------------------------------------------------ shard selection

\* The most files a metadata torrent lists.
MaxTorrentFiles == 3

\* A path "elasticsearch/aarecords__<digits>.json.gz", or one in another place.
ShardPath(digits) == [Dir |-> "elasticsearch", Digits |-> digits]
TorrentPaths ==
    { ShardPath(<<"1">>), ShardPath(<<"2">>), ShardPath(<<"1", "0">>), ShardPath(<<"0", "2">>),
      [Dir |-> "other", Digits |-> <<"3">>] }

\* The file lists of a torrent: no path twice.
TorrentFileLists ==
    UNION {{q \in [1..n -> TorrentPaths] : \A j, k \in 1..n : j # k => q[j] # q[k]} :
           n \in 0..MaxTorrentFiles}

\* filePattern.MatchString(file.Path())
MatchesPattern(f) ==
    /\ f.Dir = "elasticsearch"
    /\ f.Digits # <<>>
    /\ \A i \in 1..Len(f.Digits) : IsDigit(f.Digits[i])

\* ExtractFileIndex: the digits read by Sscanf("%d").
ExtractFileIndex(f) == DecimalValue(f.Digits)

\* matchedFiles as the loop over t.Files() builds it.
MatchedFiles(fs) == SelectSeq(fs, MatchesPattern)

\* What sort.Slice with less = (indexI < indexJ) can leave: a permutation in
\* which no file comes before one of smaller index (the sort is not stable).
SortedByIndex(fs) ==
    {q \in [1..Len(fs) -> {fs[i] : i \in 1..Len(fs)}] :
        /\ \A i \in 1..Len(fs) : \E k \in 1..Len(fs) : q[k] = fs[i]
        /\ \A j, k \in 1..Len(fs) : j < k => ExtractFileIndex(q[j]) <= ExtractFileIndex(q[k])}

\* torrent.File.Download(): the file's pieces get the normal priority.
Download(f) == "Normal"

OutsideSelect == <<dbVars, sinkVars, syncVars, pickVars, epubVars, statVars, dstatus,
                   regVars, isbnVars, lockVars, shardVars, tailVars>>

\* DownloadAndProcessRecords from the match loop to processor.Files: no file
\* matched returns (nil, nil); otherwise sort, name the registry entries and
\* call Download on every file, in the sorted order.
SelectShards(order) ==
    /\ sel = NotCalled
    /\ order \in SortedByIndex(MatchedFiles(tfiles))
    /\ sel' = [matchedFiles |-> order,
               fileNames |-> IF order = <<>> THEN NotCalled
                             ELSE [names |-> [i \in 1..Len(order) |-> order[i]]],
               priority |-> [i \in 1..Len(order) |-> Download(order[i])]]
    /\ UNCHANGED tfiles

InitSelect ==
    /\ records = [x \in {} |-> <<>>]
    /\ identifiers = {}
    /\ classifications = {}
    /\ upc = [w \in Workers |-> "idle"]
    /\ urec = [w \in Workers |-> NilRecord]
    /\ uret = [w \in Workers |-> "none"]
    /\ called = {}
    /\ repeated = {}
    /\ ncalls = 0
    /\ syncs = {}
    /\ torrents = [b \in {} |-> NoTorrent]
    /\ now = 0
    /\ mpc = "loop"
    /\ sleepDuration = 0
    /\ wakeAt = 0
    /\ lastSync = NilSync
    /\ picked = NoTorrent
    /\ serr = "none"
    /\ env = [disableSync |-> FALSE, keepFiles |-> FALSE]
    /\ added = {}
    /\ dataDir = "present"
    /\ files = <<>>
    /\ wst = <<>>
    /\ nrec = <<>>
    /\ results = <<>>
    /\ stats = IdleStats
    /\ syncBase = ""
    /\ cache = NoStats
    /\ att = [outcome |-> "none", endSyncs |-> 0, recomputes |-> 0, storeError |-> FALSE]
    /\ inSync = 0
    /\ catalog = <<>>
    /\ latest = NotCalled
    /\ storage = "ok"
    /\ epubFile = NoFile
    /\ active = NoTracker
    /\ trk = [c \in Callers |-> newDownloadTracker]
    /\ flight = NoCaller
    /\ cpc = [c \in Callers |-> "idle"]
    /\ ctrk = [c \in Callers |-> NoTracker]
    /\ cjoin = [c \in Callers |-> NoCaller]
    /\ fnres = [c \in Callers |-> "none"]
    /\ cres = [c \in Callers |-> "none"]
    /\ dlBytes = 0
    /\ dlLost = FALSE
    /\ ran = {}
    /\ magnets = 0
    /\ peers = [c \in Callers |-> {}]
    /\ cstart = [c \in Callers |-> "none"]
    /\ chans = [x \in Subscribers |-> [buf |-> <<>>, closed |-> FALSE]]
    /\ spc = [x \in Subscribers |-> "none"]
    /\ got = [x \in Subscribers |-> NoEvents]
    /\ muWriter = NoProc
    /\ muReaders = {}
    /\ ppc = [p \in StatProcs |-> "idle"]
    /\ pop = [p \in StatProcs |-> "none"]
    /\ pbuild = [p \in StatProcs |-> NewStats]
    /\ pret = [p \in StatProcs |-> NotCalled]
    /\ pq = [p \in StatProcs |-> FALSE]
    /\ dstatus = "none"
    /\ backing = [a \in Arrays |-> <<>>]
    /\ filesRef = NoArray
    /\ snap = NotCalled
    /\ snapSeen = NotCalled
    /\ isbnCode = <<>>
    /\ isbn13 = NotCalled
    /\ isbn10 = NotCalled
    /\ isbnBack = NotCalled
    /\ held = [w \in Workers |-> {}]
    /\ todo = [w \in Workers |-> <<>>]
    /\ tfiles \in TorrentFileLists
    /\ sel = NotCalled
    /\ shardIn = [lines |-> <<>>, fragment |-> "", end |-> "eof"]
    /\ spos = 1
    /\ sbusy = FALSE
    /\ sinv = <<>>
    /\ scount = 0
    /\ sres = NotCalled
    /\ orch = "idle"
    /\ wrun = {}
    /\ smpPc = "none"
    /\ doneClosed = FALSE
    /\ tickerC = 0
    /\ nticks = 0
    /\ smpFile = 0
    /\ fileIndex = -1
    /\ calledAt = {}
    /\ wroteAt = {}
    /\ rmu = [writer |-> "none", readers |-> {}]
    /\ rpc = [g \in RegGoroutines |-> "idle"]
    /\ qrun = FALSE
    /\ rsnap = [h \in SnapshotCallers |-> NotCalled]
    /\ tmu = "none"
    /\ tsubs = <<>>
    /\ tprogress = "DOWNLOADING"
    /\ fpc = [g \in FanGoroutines |-> "idle"]
    /\ flocal = [e \in Executions |-> <<>>]
    /\ fch = [x \in FanSubscribers |-> [len |-> 0, closed |-> FALSE]]
    /\ fdrop = [x \in FanSubscribers |-> FALSE]
    /\ fpanic = "none"
    /\ hpc = [c \in Downloads |-> "idle"]
    /\ hctx = [c \in Downloads |-> FALSE]
    /\ hcancelAt = [c \in Downloads |-> "none"]
    /\ htorrent = [added |-> FALSE, info |-> FALSE]
    /\ hhandle = [c \in Downloads |-> "none"]
    /\ hbytes = [c \in Downloads |-> 0]
    /\ hdisk = [c \in Downloads |-> NoFile]
    /\ hres = [c \in Downloads |-> NotCalled]
    /\ hactive = [c \in Downloads |-> FALSE]

NextSelect ==
    \E order \in SortedByIndex(MatchedFiles(tfiles)) :
        SelectShards(order) /\ UNCHANGED OutsideSelect

SpecSelect == InitSelect /\ [][NextSelect]_vars

\* ------------------------------------------------------------------ one shard, line by line

\* The most complete lines of a shard.
MaxLines == 2

\* The shard file the worker reads.
ShardFile == 1

\* What a line may hold before its newline: two records, null, an array, an
\* object cut short, nothing.
LineTexts == {"{\"_id\":\"a\"}", "{\"_id\":\"c\"}", "null", "[]", "{\"_id\":", ""}

\* The text is a JSON value.
IsJSON(text) == text \in {"{\"_id\":\"a\"}", "{\"_id\":\"c\"}", "null", "[]"}

\* json.Unmarshal([]byte(line), &record) into a zero anna.Record: an object
\* fills the fields it names, null leaves the record as it is, an array is a
\* type error, a cut or empty text a syntax error.
Unmarshal(text) ==
    CASE text = "{\"_id\":\"a\"}" -> [err |-> "nil", record |-> [ID |-> "a"]]
      [] text = "{\"_id\":\"c\"}" -> [err |-> "nil", record |-> [ID |-> "c"]]
      [] text = "null" -> [err |-> "nil", record |-> [ID |-> ""]]
      [] text = "[]" -> [err |-> "UnmarshalTypeError", record |-> [ID |-> ""]]
      [] OTHER -> [err |-> "SyntaxError", record |-> [ID |-> ""]]

\* The streams a shard can be: complete lines, then a fragment without
\* newline (possibly empty), then io.EOF, io.ErrUnexpectedEOF (a cut gzip
\* stream) or another read error.
ShardStreams ==
    [lines : UNION {[1..n -> LineTexts] : n \in 0..MaxLines},
     fragment : {"", "{\"_id\":\"a\"}"},
     end : {"eof", "unexpectedEOF", "error"}]

OutsideShard == <<dbVars, sinkVars, syncs, torrents, now, mpc, sleepDuration, wakeAt,
                  lastSync, picked, serr, env, added, dataDir, files, wst, nrec,
                  results, syncBase, cache, att, inSync, pickVars, epubVars, statVars,
                  dstatus, regVars, isbnVars, lockVars, selVars, tailVars>>

\* The loop reads a complete line and stops at the first parse failure.
ReadLineAbortsOnFailure ==
    /\ sres = NotCalled
    /\ ~sbusy
    /\ spos <= Len(shardIn.lines)
    /\ spos' = spos + 1
    /\ IF Unmarshal(shardIn.lines[spos]).err # "nil"
       THEN /\ sres' = [RecordCount |-> 0, Error |-> "parse error"]
            /\ UNCHANGED <<sbusy, sinv>>
       ELSE /\ sbusy' = TRUE
            /\ sinv' = Append(sinv, [line |-> spos, record |-> Unmarshal(shardIn.lines[spos]).record])
            /\ UNCHANGED sres
    /\ UNCHANGED <<shardIn, scount, stats>>

\* One turn of the loop over a complete line: ReadString returns it with a nil
\* error; a line that does not unmarshal is logged and skipped, any other is
\* handed to processor.Record.
ReadLine ==
    /\ sres = NotCalled
    /\ ~sbusy
    /\ spos <= Len(shardIn.lines)
    /\ spos' = spos + 1
    /\ IF Unmarshal(shardIn.lines[spos]).err # "nil"
       THEN UNCHANGED <<sbusy, sinv>>
       ELSE /\ sbusy' = TRUE
            /\ sinv' = Append(sinv, [line |-> spos, record |-> Unmarshal(shardIn.lines[spos]).record])
    /\ UNCHANGED <<shardIn, scount, sres, stats>>

\* processor.Record returns; recordCount++.
RecordReturns ==
    /\ sbusy
    /\ sbusy' = FALSE
    /\ scount' = scount + 1
    /\ UNCHANGED <<shardIn, spos, sinv, sres, stats>>

\* The same with io.ErrUnexpectedEOF taken for a read error.
ReadEndStrict ==
    /\ sres = NotCalled
    /\ ~sbusy
    /\ spos = Len(shardIn.lines) + 1
    /\ IF shardIn.end = "eof"
       THEN /\ stats' = ReportDone(stats, ShardFile)
            /\ sres' = [RecordCount |-> scount, Error |-> "nil"]
       ELSE /\ sres' = [RecordCount |-> 0, Error |-> "read error"]
            /\ UNCHANGED stats
    /\ UNCHANGED <<shardIn, spos, sbusy, sinv, scount>>

\* ReadString returns an error with whatever it read after the last newline.
\* io.EOF and io.ErrUnexpectedEOF leave the loop: both Stats calls at 100%,
\* the count is returned. Any other error returns the result at once, with
\* Error set and RecordCount never assigned.
ReadEnd ==
    /\ sres = NotCalled
    /\ ~sbusy
    /\ spos = Len(shardIn.lines) + 1
    /\ IF shardIn.end \in {"eof", "unexpectedEOF"}
       THEN /\ stats' = ReportDone(stats, ShardFile)
            /\ sres' = [RecordCount |-> scount, Error |-> "nil"]
       ELSE /\ sres' = [RecordCount |-> 0, Error |-> "read error"]
            /\ UNCHANGED stats
    /\ UNCHANGED <<shardIn, spos, sbusy, sinv, scount>>

\* processFileWhileDownloading over one shard of a running sync.
InitShard ==
    /\ records = [x \in {} |-> <<>>]
    /\ identifiers = {}
    /\ classifications = {}
    /\ upc = [w \in Workers |-> "idle"]
    /\ urec = [w \in Workers |-> NilRecord]
    /\ uret = [w \in Workers |-> "none"]
    /\ called = {}
    /\ repeated = {}
    /\ ncalls = 0
    /\ syncs = {}
    /\ torrents = [b \in {} |-> NoTorrent]
    /\ now = 0
    /\ mpc = "loop"
    /\ sleepDuration = 0
    /\ wakeAt = 0
    /\ lastSync = NilSync
    /\ picked = NoTorrent
    /\ serr = "none"
    /\ env = [disableSync |-> FALSE, keepFiles |-> FALSE]
    /\ added = {}
    /\ dataDir = "present"
    /\ files = <<>>
    /\ wst = <<>>
    /\ nrec = <<>>
    /\ results = <<>>
    /\ stats = StartSync(MetaV1.DisplayName, <<ShardFile>>)
    /\ syncBase = ""
    /\ cache = NoStats
    /\ att = [outcome |-> "none", endSyncs |-> 0, recomputes |-> 0, storeError |-> FALSE]
    /\ inSync = 0
    /\ catalog = <<>>
    /\ latest = NotCalled
    /\ storage = "ok"
    /\ epubFile = NoFile
    /\ active = NoTracker
    /\ trk = [c \in Callers |-> newDownloadTracker]
    /\ flight = NoCaller
    /\ cpc = [c \in Callers |-> "idle"]
    /\ ctrk = [c \in Callers |-> NoTracker]
    /\ cjoin = [c \in Callers |-> NoCaller]
    /\ fnres = [c \in Callers |-> "none"]
    /\ cres = [c \in Callers |-> "none"]
    /\ dlBytes = 0
    /\ dlLost = FALSE
    /\ ran = {}
    /\ magnets = 0
    /\ peers = [c \in Callers |-> {}]
    /\ cstart = [c \in Callers |-> "none"]
    /\ chans = [x \in Subscribers |-> [buf |-> <<>>, closed |-> FALSE]]
    /\ spc = [x \in Subscribers |-> "none"]
    /\ got = [x \in Subscribers |-> NoEvents]
    /\ muWriter = NoProc
    /\ muReaders = {}
    /\ ppc = [p \in StatProcs |-> "idle"]
    /\ pop = [p \in StatProcs |-> "none"]
    /\ pbuild = [p \in StatProcs |-> NewStats]
    /\ pret = [p \in StatProcs |-> NotCalled]
    /\ pq = [p \in StatProcs |-> FALSE]
    /\ dstatus = "none"
    /\ backing = [a \in Arrays |-> <<>>]
    /\ filesRef = NoArray
    /\ snap = NotCalled
    /\ snapSeen = NotCalled
    /\ isbnCode = <<>>
    /\ isbn13 = NotCalled
    /\ isbn10 = NotCalled
    /\ isbnBack = NotCalled
    /\ held = [w \in Workers |-> {}]
    /\ todo = [w \in Workers |-> <<>>]
    /\ tfiles = <<>>
    /\ sel = NotCalled
    /\ shardIn \in ShardStreams
    /\ spos = 1
    /\ sbusy = FALSE
    /\ sinv = <<>>
    /\ scount = 0
    /\ sres = NotCalled
    /\ orch = "idle"
    /\ wrun = {}
    /\ smpPc = "none"
    /\ doneClosed = FALSE
    /\ tickerC = 0
    /\ nticks = 0
    /\ smpFile = 0
    /\ fileIndex = -1
    /\ calledAt = {}
    /\ wroteAt = {}
    /\ rmu = [writer |-> "none", readers |-> {}]
    /\ rpc = [g \in RegGoroutines |-> "idle"]
    /\ qrun = FALSE
    /\ rsnap = [h \in SnapshotCallers |-> NotCalled]
    /\ tmu = "none"
    /\ tsubs = <<>>
    /\ tprogress = "DOWNLOADING"
    /\ fpc = [g \in FanGoroutines |-> "idle"]
    /\ flocal = [e \in Executions |-> <<>>]
    /\ fch = [x \in FanSubscribers |-> [len |-> 0, closed |-> FALSE]]
    /\ fdrop = [x \in FanSubscribers |-> FALSE]
    /\ fpanic = "none"
    /\ hpc = [c \in Downloads |-> "idle"]
    /\ hctx = [c \in Downloads |-> FALSE]
    /\ hcancelAt = [c \in Downloads |-> "none"]
    /\ htorrent = [added |-> FALSE, info |-> FALSE]
    /\ hhandle = [c \in Downloads |-> "none"]
    /\ hbytes = [c \in Downloads |-> 0]
    /\ hdisk = [c \in Downloads |-> NoFile]
    /\ hres = [c \in Downloads |-> NotCalled]
    /\ hactive = [c \in Downloads |-> FALSE]

NextShard ==
    \/ ReadLine /\ UNCHANGED OutsideShard
    \/ RecordReturns /\ UNCHANGED OutsideShard
    \/ ReadEnd /\ UNCHANGED OutsideShard

SpecShard == InitShard /\ [][NextShard]_vars

\* ------------------------------------------------------------------ download sampler

\* The most ticks the ticker produces while the model runs.
MaxTicks == 2

\* matchedFiles of the running sync, sorted by index, and the names the
\* registry is started with by a later sync of another torrent.
matchedFiles == Ascending(1..MaxShards)

LaterFiles == [i \in 1..MaxShards |-> MaxShards + i]

\* What file.BytesCompleted() / file.Length() * 100 may come to.
SamplePercents == {50, 100}

OutsideSampler == <<dbVars, sinkVars, syncs, torrents, now, mpc, sleepDuration, wakeAt,
                    lastSync, picked, serr, env, added, dataDir, files, wst, nrec,
                    results, syncBase, att, inSync, pickVars, epubVars, statVars,
                    dstatus, regVars, isbnVars, lockVars, selVars, shardVars, rlockVars, fanVars, handleVars>>

\* The worker goroutine of one file ends: its last two Stats calls (100 %),
\* then the deferred wg.Done.
SamplerWorkerDone(i) ==
    /\ orch = "workers"
    /\ i \in wrun
    /\ wrun' = wrun \ {i}
    /\ stats' = ReportDone(stats, matchedFiles[i])
    /\ UNCHANGED <<cache, orch, smpPc, doneClosed, tickerC, nticks, smpFile, fileIndex,
                   calledAt, wroteAt>>

\* wg.Wait() returns, close(done), t.Drop(), return results: nothing waits
\* for the sampler goroutine.
ProcessorReturn ==
    /\ orch = "workers"
    /\ wrun = {}
    /\ doneClosed' = TRUE
    /\ orch' = "returned"
    /\ UNCHANGED <<stats, cache, wrun, smpPc, tickerC, nticks, smpFile, fileIndex,
                   calledAt, wroteAt>>

\* Sync after the processor returned: the registry is reset by EndSync.
SamplerEndSync ==
    /\ orch = "returned"
    /\ EndSync(syncs)
    /\ orch' = "ended"
    /\ UNCHANGED <<wrun, smpPc, doneClosed, tickerC, nticks, smpFile, fileIndex,
                   calledAt, wroteAt>>

\* A later sync reaches processor.Files for another torrent.
LaterStartSync ==
    /\ orch = "ended"
    /\ stats' = StartSync(MetaV2.DisplayName, LaterFiles)
    /\ orch' = "later"
    /\ UNCHANGED <<cache, wrun, smpPc, doneClosed, tickerC, nticks, smpFile, fileIndex,
                   calledAt, wroteAt>>

\* The ticker of time.NewTicker(10 * time.Second) puts a tick in its channel.
TickerFires ==
    /\ nticks < MaxTicks
    /\ tickerC = 0
    /\ tickerC' = 1
    /\ nticks' = nticks + 1
    /\ UNCHANGED <<stats, cache, orch, wrun, smpPc, doneClosed, smpFile, fileIndex,
                   calledAt, wroteAt>>

\* select takes `case <-done: return`.
SelectDone ==
    /\ smpPc = "select"
    /\ doneClosed
    /\ smpPc' = "stopped"
    /\ UNCHANGED <<stats, cache, orch, wrun, doneClosed, tickerC, nticks, smpFile,
                   fileIndex, calledAt, wroteAt>>

\* select takes `case <-ticker.C`: with both channels ready either case may
\* be taken. updateProgress starts at the first file.
SelectTick ==
    /\ smpPc = "select"
    /\ tickerC = 1
    /\ tickerC' = 0
    /\ smpPc' = "lookup"
    /\ smpFile' = 1
    /\ UNCHANGED <<stats, cache, orch, wrun, doneClosed, nticks, fileIndex,
                   calledAt, wroteAt>>

\* The index of the first registry entry of that name, counted from 0; -1
\* when there is none.
LookupIndex(st, path) ==
    IF \E i \in 1..Len(st.Files) : st.Files[i].Name = path
    THEN (CHOOSE i \in 1..Len(st.Files) :
              st.Files[i].Name = path
              /\ \A j \in 1..(i - 1) : st.Files[j].Name # path) - 1
    ELSE -1

\* updateProgress moves to the next file, or returns to the select.
NextFile ==
    IF smpFile < Len(matchedFiles)
    THEN smpFile' = smpFile + 1 /\ smpPc' = "lookup"
    ELSE smpFile' = 0 /\ smpPc' = "select"

\* updateProgress calls processor.Stats for the file it is at;
\* annaProcessor.Stats looks the path up under the read lock and returns
\* when it is not there.
SamplerStatsLookup ==
    /\ smpPc = "lookup"
    /\ calledAt' = calledAt \cup {orch}
    /\ fileIndex' = LookupIndex(stats, matchedFiles[smpFile])
    /\ IF fileIndex' = -1 THEN NextFile ELSE smpPc' = "update" /\ smpFile' = smpFile
    /\ UNCHANGED <<stats, cache, orch, wrun, doneClosed, tickerC, nticks, wroteAt>>

\* annaProcessor.Stats, after the read lock is released: UpdateFileDownload
\* with the index found, which writes when the index is in range.
SamplerStatsUpdate(percent) ==
    /\ smpPc = "update"
    /\ IF fileIndex >= 0 /\ fileIndex < Len(stats.Files)
       THEN /\ stats' = [stats EXCEPT !.Files[fileIndex + 1].Downloaded = percent]
            /\ wroteAt' = wroteAt \cup {orch}
       ELSE UNCHANGED <<stats, wroteAt>>
    /\ fileIndex' = -1
    /\ NextFile
    /\ UNCHANGED <<cache, orch, wrun, doneClosed, tickerC, nticks, calledAt>>

InitSampler ==
    /\ records = [x \in {} |-> <<>>]
    /\ identifiers = {}
    /\ classifications = {}
    /\ upc = [w \in Workers |-> "idle"]
    /\ urec = [w \in Workers |-> NilRecord]
    /\ uret = [w \in Workers |-> "none"]
    /\ called = {}
    /\ repeated = {}
    /\ ncalls = 0
    /\ syncs = {}
    /\ torrents = [b \in {} |-> NoTorrent]
    /\ now = 0
    /\ mpc = "loop"
    /\ sleepDuration = 0
    /\ wakeAt = 0
    /\ lastSync = NilSync
    /\ picked = NoTorrent
    /\ serr = "none"
    /\ env = [disableSync |-> FALSE, keepFiles |-> FALSE]
    /\ added = {}
    /\ dataDir = "present"
    /\ files = <<>>
    /\ wst = <<>>
    /\ nrec = <<>>
    /\ results = <<>>
    /\ stats = StartSync(MetaV1.DisplayName, matchedFiles)
    /\ syncBase = ""
    /\ cache = NoStats
    /\ att = [outcome |-> "none", endSyncs |-> 0, recomputes |-> 0, storeError |-> FALSE]
    /\ inSync = 0
    /\ catalog = <<>>
    /\ latest = NotCalled
    /\ storage = "ok"
    /\ epubFile = NoFile
    /\ active = NoTracker
    /\ trk = [c \in Callers |-> newDownloadTracker]
    /\ flight = NoCaller
    /\ cpc = [c \in Callers |-> "idle"]
    /\ ctrk = [c \in Callers |-> NoTracker]
    /\ cjoin = [c \in Callers |-> NoCaller]
    /\ fnres = [c \in Callers |-> "none"]
    /\ cres = [c \in Callers |-> "none"]
    /\ dlBytes = 0
    /\ dlLost = FALSE
    /\ ran = {}
    /\ magnets = 0
    /\ peers = [c \in Callers |-> {}]
    /\ cstart = [c \in Callers |-> "none"]
    /\ chans = [x \in Subscribers |-> [buf |-> <<>>, closed |-> FALSE]]
    /\ spc = [x \in Subscribers |-> "none"]
    /\ got = [x \in Subscribers |-> NoEvents]
    /\ muWriter = NoProc
    /\ muReaders = {}
    /\ ppc = [p \in StatProcs |-> "idle"]
    /\ pop = [p \in StatProcs |-> "none"]
    /\ pbuild = [p \in StatProcs |-> NewStats]
    /\ pret = [p \in StatProcs |-> NotCalled]
    /\ pq = [p \in StatProcs |-> FALSE]
    /\ dstatus = "none"
    /\ backing = [a \in Arrays |-> <<>>]
    /\ filesRef = NoArray
    /\ snap = NotCalled
    /\ snapSeen = NotCalled
    /\ isbnCode = <<>>
    /\ isbn13 = NotCalled
    /\ isbn10 = NotCalled
    /\ isbnBack = NotCalled
    /\ held = [w \in Workers |-> {}]
    /\ todo = [w \in Workers |-> <<>>]
    /\ tfiles = <<>>
    /\ sel = NotCalled
    /\ shardIn = [lines |-> <<>>, fragment |-> "", end |-> "eof"]
    /\ spos = 1
    /\ sbusy = FALSE
    /\ sinv = <<>>
    /\ scount = 0
    /\ sres = NotCalled
    /\ orch = "workers"
    /\ wrun = 1..MaxShards
    /\ smpPc = "select"
    /\ doneClosed = FALSE
    /\ tickerC = 0
    /\ nticks = 0
    /\ smpFile = 0
    /\ fileIndex = -1
    /\ calledAt = {}
    /\ wroteAt = {}
    /\ rmu = [writer |-> "none", readers |-> {}]
    /\ rpc = [g \in RegGoroutines |-> "idle"]
    /\ qrun = FALSE
    /\ rsnap = [h \in SnapshotCallers |-> NotCalled]
    /\ tmu = "none"
    /\ tsubs = <<>>
    /\ tprogress = "DOWNLOADING"
    /\ fpc = [g \in FanGoroutines |-> "idle"]
    /\ flocal = [e \in Executions |-> <<>>]
    /\ fch = [x \in FanSubscribers |-> [len |-> 0, closed |-> FALSE]]
    /\ fdrop = [x \in FanSubscribers |-> FALSE]
    /\ fpanic = "none"
    /\ hpc = [c \in Downloads |-> "idle"]
    /\ hctx = [c \in Downloads |-> FALSE]
    /\ hcancelAt = [c \in Downloads |-> "none"]
    /\ htorrent = [added |-> FALSE, info |-> FALSE]
    /\ hhandle = [c \in Downloads |-> "none"]
    /\ hbytes = [c \in Downloads |-> 0]
    /\ hdisk = [c \in Downloads |-> NoFile]
    /\ hres = [c \in Downloads |-> NotCalled]
    /\ hactive = [c \in Downloads |-> FALSE]

NextSampler ==
    \/ \E i \in 1..MaxShards : SamplerWorkerDone(i) /\ UNCHANGED OutsideSampler
    \/ ProcessorReturn /\ UNCHANGED OutsideSampler
    \/ SamplerEndSync /\ UNCHANGED OutsideSampler
    \/ LaterStartSync /\ UNCHANGED OutsideSampler
    \/ TickerFires /\ UNCHANGED OutsideSampler
    \/ SelectDone /\ UNCHANGED OutsideSampler
    \/ SelectTick /\ UNCHANGED OutsideSampler
    \/ SamplerStatsLookup /\ UNCHANGED OutsideSampler
    \/ \E percent \in SamplePercents : SamplerStatsUpdate(percent) /\ UNCHANGED OutsideSampler

SpecSampler == InitSampler /\ [][NextSampler]_vars


\* ------------------------------------------------------------------ registry lock

OutsideRegLock == <<dbVars, sinkVars, syncs, torrents, now, mpc, sleepDuration, wakeAt,
                    lastSync, picked, serr, env, added, dataDir, files, wst, nrec,
                    results, syncBase, att, inSync, pickVars, epubVars, statVars,
                    dstatus, regVars, isbnVars, lockVars, selVars, shardVars, smpVars, fanVars, handleVars>>

\* s.mu.Lock(): taken when nobody holds the lock.
RegLock(g) ==
    /\ rmu.writer = "none"
    /\ rmu.readers = {}
    /\ rmu' = [rmu EXCEPT !.writer = g]

\* s.mu.RLock(): taken when no writer holds the lock.
RegRLock(g) ==
    /\ rmu.writer = "none"
    /\ rmu' = [rmu EXCEPT !.readers = @ \cup {g}]

RegUnlock(g) == rmu' = [rmu EXCEPT !.writer = "none"]

RegRUnlock(g) == rmu' = [rmu EXCEPT !.readers = @ \ {g}]

\* SyncStats.StartSync, called by the sync goroutine: Lock.
LockStartSync ==
    /\ rpc["sync"] = "idle"
    /\ RegLock("sync")
    /\ rpc' = [rpc EXCEPT !["sync"] = "starting"]
    /\ UNCHANGED <<stats, cache, qrun, rsnap>>

\* SyncStats.StartSync: the fields are written and the deferred Unlock runs.
LockStartSyncDone ==
    /\ rpc["sync"] = "starting"
    /\ stats' = StartSync(MetaV1.DisplayName, <<ShardFile>>)
    /\ RegUnlock("sync")
    /\ rpc' = [rpc EXCEPT !["sync"] = "running"]
    /\ UNCHANGED <<cache, qrun, rsnap>>

\* annaProcessor.Stats: the lookup of the path under RLock.
LockStatsLookup ==
    /\ rpc["progress"] = "idle"
    /\ rpc["sync"] # "idle"
    /\ RegRLock("progress")
    /\ rpc' = [rpc EXCEPT !["progress"] = "lookup"]
    /\ UNCHANGED <<stats, cache, qrun, rsnap>>

\* annaProcessor.Stats: RUnlock; the call returns when the path was not found.
LockStatsLookupDone ==
    /\ rpc["progress"] = "lookup"
    /\ RegRUnlock("progress")
    /\ rpc' = [rpc EXCEPT !["progress"] =
                  IF LookupIndex(stats, ShardFile) = -1 THEN "idle" ELSE "found"]
    /\ UNCHANGED <<stats, cache, qrun, rsnap>>

\* SyncStats.UpdateFileDownload / UpdateFileProcessed: Lock.
LockUpdate ==
    /\ rpc["progress"] = "found"
    /\ RegLock("progress")
    /\ rpc' = [rpc EXCEPT !["progress"] = "updating"]
    /\ UNCHANGED <<stats, cache, qrun, rsnap>>

\* The update writes entry 0 when it is in range; the deferred Unlock runs.
LockUpdateDone(download, percent) ==
    /\ rpc["progress"] = "updating"
    /\ stats' = IF Len(stats.Files) > 0
                THEN IF download
                     THEN [stats EXCEPT !.Files[1].Downloaded = percent]
                     ELSE [stats EXCEPT !.Files[1].Processed = percent]
                ELSE stats
    /\ RegUnlock("progress")
    /\ rpc' = [rpc EXCEPT !["progress"] = "idle"]
    /\ UNCHANGED <<cache, qrun, rsnap>>

\* GetStats: RLock.
LockGetStats(h) ==
    /\ rpc[h] = "idle"
    /\ rsnap[h] = NotCalled
    /\ RegRLock(h)
    /\ rpc' = [rpc EXCEPT ![h] = "reading"]
    /\ UNCHANGED <<stats, cache, qrun, rsnap>>

\* GetStats: `return *stats`, then the deferred RUnlock.
LockGetStatsDone(h) ==
    /\ rpc[h] = "reading"
    /\ rsnap' = [rsnap EXCEPT ![h] = stats]
    /\ RegRUnlock(h)
    /\ rpc' = [rpc EXCEPT ![h] = "idle"]
    /\ UNCHANGED <<stats, cache, qrun>>

\* SyncStats.EndSync: Lock.
LockEndSync ==
    /\ rpc["sync"] = "running"
    /\ RegLock("sync")
    /\ rpc' = [rpc EXCEPT !["sync"] = "ending"]
    /\ UNCHANGED <<stats, cache, qrun, rsnap>>

\* SyncStats.EndSync: IsRunning, Base and Files are reset.
LockEndSyncReset ==
    /\ rpc["sync"] = "ending"
    /\ stats' = IdleStats
    /\ rpc' = [rpc EXCEPT !["sync"] = "reset"]
    /\ UNCHANGED <<cache, rmu, qrun, rsnap>>

\* SyncStats.EndSync calls database.ComputeAndCacheStats(true): the queries
\* on the store begin.
LockRecomputeQuery ==
    /\ rpc["sync"] = "reset"
    /\ qrun' = TRUE
    /\ rpc' = [rpc EXCEPT !["sync"] = "querying"]
    /\ UNCHANGED <<stats, cache, rmu, rsnap>>

\* ComputeAndCacheStats: the queries have answered, cache.stats is set.
LockRecomputeDone ==
    /\ rpc["sync"] = "querying"
    /\ qrun' = FALSE
    /\ cache' = ComputeAndCacheStats(cache, syncs, DB)
    /\ rpc' = [rpc EXCEPT !["sync"] = "recomputed"]
    /\ UNCHANGED <<stats, rmu, rsnap>>

\* SyncStats.EndSync returns: the deferred Unlock runs.
LockEndSyncUnlock ==
    /\ rpc["sync"] = "recomputed"
    /\ RegUnlock("sync")
    /\ rpc' = [rpc EXCEPT !["sync"] = "ended"]
    /\ UNCHANGED <<stats, cache, qrun, rsnap>>

InitRegLock ==
    /\ records = [x \in {} |-> <<>>]
    /\ identifiers = {}
    /\ classifications = {}
    /\ upc = [w \in Workers |-> "idle"]
    /\ urec = [w \in Workers |-> NilRecord]
    /\ uret = [w \in Workers |-> "none"]
    /\ called = {}
    /\ repeated = {}
    /\ ncalls = 0
    /\ syncs = StatRows
    /\ torrents = [b \in {} |-> NoTorrent]
    /\ now = 0
    /\ mpc = "loop"
    /\ sleepDuration = 0
    /\ wakeAt = 0
    /\ lastSync = NilSync
    /\ picked = NoTorrent
    /\ serr = "none"
    /\ env = [disableSync |-> FALSE, keepFiles |-> FALSE]
    /\ added = {}
    /\ dataDir = "present"
    /\ files = <<>>
    /\ wst = <<>>
    /\ nrec = <<>>
    /\ results = <<>>
    /\ stats = IdleStats
    /\ syncBase = ""
    /\ cache = NoStats
    /\ att = [outcome |-> "none", endSyncs |-> 0, recomputes |-> 0, storeError |-> FALSE]
    /\ inSync = 0
    /\ catalog = <<>>
    /\ latest = NotCalled
    /\ storage = "ok"
    /\ epubFile = NoFile
    /\ active = NoTracker
    /\ trk = [c \in Callers |-> newDownloadTracker]
    /\ flight = NoCaller
    /\ cpc = [c \in Callers |-> "idle"]
    /\ ctrk = [c \in Callers |-> NoTracker]
    /\ cjoin = [c \in Callers |-> NoCaller]
    /\ fnres = [c \in Callers |-> "none"]
    /\ cres = [c \in Callers |-> "none"]
    /\ dlBytes = 0
    /\ dlLost = FALSE
    /\ ran = {}
    /\ magnets = 0
    /\ peers = [c \in Callers |-> {}]
    /\ cstart = [c \in Callers |-> "none"]
    /\ chans = [x \in Subscribers |-> [buf |-> <<>>, closed |-> FALSE]]
    /\ spc = [x \in Subscribers |-> "none"]
    /\ got = [x \in Subscribers |-> NoEvents]
    /\ muWriter = NoProc
    /\ muReaders = {}
    /\ ppc = [p \in StatProcs |-> "idle"]
    /\ pop = [p \in StatProcs |-> "none"]
    /\ pbuild = [p \in StatProcs |-> NewStats]
    /\ pret = [p \in StatProcs |-> NotCalled]
    /\ pq = [p \in StatProcs |-> FALSE]
    /\ dstatus = "none"
    /\ backing = [a \in Arrays |-> <<>>]
    /\ filesRef = NoArray
    /\ snap = NotCalled
    /\ snapSeen = NotCalled
    /\ isbnCode = <<>>
    /\ isbn13 = NotCalled
    /\ isbn10 = NotCalled
    /\ isbnBack = NotCalled
    /\ held = [w \in Workers |-> {}]
    /\ todo = [w \in Workers |-> <<>>]
    /\ tfiles = <<>>
    /\ sel = NotCalled
    /\ shardIn = [lines |-> <<>>, fragment |-> "", end |-> "eof"]
    /\ spos = 1
    /\ sbusy = FALSE
    /\ sinv = <<>>
    /\ scount = 0
    /\ sres = NotCalled
    /\ orch = "idle"
    /\ wrun = {}
    /\ smpPc = "none"
    /\ doneClosed = FALSE
    /\ tickerC = 0
    /\ nticks = 0
    /\ smpFile = 0
    /\ fileIndex = -1
    /\ calledAt = {}
    /\ wroteAt = {}
    /\ rmu = [writer |-> "none", readers |-> {}]
    /\ rpc = [g \in RegGoroutines |-> "idle"]
    /\ qrun = FALSE
    /\ rsnap = [h \in SnapshotCallers |-> NotCalled]
    /\ tmu = "none"
    /\ tsubs = <<>>
    /\ tprogress = "DOWNLOADING"
    /\ fpc = [g \in FanGoroutines |-> "idle"]
    /\ flocal = [e \in Executions |-> <<>>]
    /\ fch = [x \in FanSubscribers |-> [len |-> 0, closed |-> FALSE]]
    /\ fdrop = [x \in FanSubscribers |-> FALSE]
    /\ fpanic = "none"
    /\ hpc = [c \in Downloads |-> "idle"]
    /\ hctx = [c \in Downloads |-> FALSE]
    /\ hcancelAt = [c \in Downloads |-> "none"]
    /\ htorrent = [added |-> FALSE, info |-> FALSE]
    /\ hhandle = [c \in Downloads |-> "none"]
    /\ hbytes = [c \in Downloads |-> 0]
    /\ hdisk = [c \in Downloads |-> NoFile]
    /\ hres = [c \in Downloads |-> NotCalled]
    /\ hactive = [c \in Downloads |-> FALSE]

NextRegLock ==
    \/ LockStartSync /\ UNCHANGED OutsideRegLock
    \/ LockStartSyncDone /\ UNCHANGED OutsideRegLock
    \/ LockStatsLookup /\ UNCHANGED OutsideRegLock
    \/ LockStatsLookupDone /\ UNCHANGED OutsideRegLock
    \/ LockUpdate /\ UNCHANGED OutsideRegLock
    \/ \E download \in BOOLEAN, percent \in Percents :
          LockUpdateDone(download, percent) /\ UNCHANGED OutsideRegLock
    \/ \E h \in SnapshotCallers : LockGetStats(h) /\ UNCHANGED OutsideRegLock
    \/ \E h \in SnapshotCallers : LockGetStatsDone(h) /\ UNCHANGED OutsideRegLock
    \/ LockEndSync /\ UNCHANGED OutsideRegLock
    \/ LockEndSyncReset /\ UNCHANGED OutsideRegLock
    \/ LockRecomputeQuery /\ UNCHANGED OutsideRegLock
    \/ LockRecomputeDone /\ UNCHANGED OutsideRegLock
    \/ LockEndSyncUnlock /\ UNCHANGED OutsideRegLock

SpecRegLock == InitRegLock /\ [][NextRegLock]_vars


\* ------------------------------------------------------------------ tracker lock

OutsideFanOut == <<dbVars, sinkVars, syncVars, pickVars, epubVars, statVars,
                   dstatus, regVars, isbnVars, lockVars, selVars, shardVars,
                   smpVars, rlockVars, handleVars>>

\* t.mu.Lock()
TrackerLock(g, at) ==
    /\ fpanic = "none"
    /\ fpc[g] = "idle"
    /\ tmu = "none"
    /\ tmu' = g
    /\ fpc' = [fpc EXCEPT ![g] = at]
    /\ UNCHANGED <<tsubs, tprogress, flocal, fch, fdrop, fpanic>>

\* select { case ch <- progress: default: } on a channel of capacity 10: the
\* event is queued when there is room and dropped when there is none; a send
\* on a closed channel panics.
TrySend(x) ==
    IF fch[x].closed
    THEN /\ fpanic' = "send on closed channel"
         /\ UNCHANGED <<fch, fdrop>>
    ELSE /\ fch' = [fch EXCEPT ![x].len = IF @ < ChanCap THEN @ + 1 ELSE @]
         /\ fdrop' = [fdrop EXCEPT ![x] = @ \/ fch[x].len >= ChanCap]
         /\ UNCHANGED fpanic

\* update, lines 55-69, with the lock kept: the fan-out runs inside the
\* critical section.
UpdateCopyKeepLock(e) ==
    /\ fpanic = "none"
    /\ fpc[e] = "update"
    /\ tprogress' = "DOWNLOADING"
    /\ flocal' = [flocal EXCEPT ![e] = tsubs]
    /\ fpc' = [fpc EXCEPT ![e] = "fanout"]
    /\ UNCHANGED <<tmu, tsubs, fch, fdrop, fpanic>>

\* update, lines 55-69: under the lock the progress is set and the subscriber
\* list copied; then Unlock.
UpdateCopy(e) ==
    /\ fpanic = "none"
    /\ fpc[e] = "update"
    /\ tprogress' = "DOWNLOADING"
    /\ flocal' = [flocal EXCEPT ![e] = tsubs]
    /\ tmu' = "none"
    /\ fpc' = [fpc EXCEPT ![e] = "fanout"]
    /\ UNCHANGED <<tsubs, fch, fdrop, fpanic>>

\* update, lines 71-76: one turn of the fan-out loop; after the last channel
\* update returns.
UpdateSend(e) ==
    /\ fpanic = "none"
    /\ fpc[e] = "fanout"
    /\ IF flocal[e] = <<>>
       THEN /\ fpc' = [fpc EXCEPT ![e] = "idle"]
            /\ tmu' = IF tmu = e THEN "none" ELSE tmu
            /\ UNCHANGED <<flocal, fch, fdrop, fpanic>>
       ELSE /\ TrySend(Head(flocal[e]))
            /\ flocal' = [flocal EXCEPT ![e] = Tail(@)]
            /\ UNCHANGED <<fpc, tmu>>
    /\ UNCHANGED <<tsubs, tprogress>>

\* complete, lines 80-86: under the lock the status becomes DOWNLOADED, the
\* subscriber list is taken and emptied; then Unlock.
CompleteTake(e) ==
    /\ fpanic = "none"
    /\ fpc[e] = "complete"
    /\ tprogress' = "DOWNLOADED"
    /\ flocal' = [flocal EXCEPT ![e] = tsubs]
    /\ tsubs' = <<>>
    /\ tmu' = "none"
    /\ fpc' = [fpc EXCEPT ![e] = "closing"]
    /\ UNCHANGED <<fch, fdrop, fpanic>>

\* complete, lines 88-94: one turn of the loop, the non-blocking send and
\* close(ch); closing a closed channel panics. After the last channel the
\* execution is over.
CompleteSendClose(e) ==
    /\ fpanic = "none"
    /\ fpc[e] = "closing"
    /\ IF flocal[e] = <<>>
       THEN /\ fpc' = [fpc EXCEPT ![e] = "done"]
            /\ UNCHANGED <<flocal, fch, fdrop, fpanic>>
       ELSE LET x == Head(flocal[e])
            IN  /\ IF fch[x].closed
                   THEN /\ fpanic' = "send on closed channel"
                        /\ UNCHANGED <<fch, fdrop>>
                   ELSE /\ fch' = [fch EXCEPT ![x] =
                                      [len |-> IF @.len < ChanCap THEN @.len + 1 ELSE @.len,
                                       closed |-> TRUE]]
                        /\ fdrop' = [fdrop EXCEPT ![x] = @ \/ fch[x].len >= ChanCap]
                        /\ UNCHANGED fpanic
                /\ flocal' = [flocal EXCEPT ![e] = Tail(@)]
                /\ UNCHANGED fpc
    /\ UNCHANGED <<tmu, tsubs, tprogress>>

\* subscribe, lines 98-103 and the deferred Unlock: a new channel is made and
\* appended, and the current progress is sent on it, which waits while the
\* channel has no room.
SubscribeLocked(x) ==
    /\ fpanic = "none"
    /\ fpc[x] = "subscribe"
    /\ 0 < ChanCap
    /\ fch' = [fch EXCEPT ![x] = [len |-> 1, closed |-> FALSE]]
    /\ tsubs' = Append(tsubs, x)
    /\ tmu' = "none"
    /\ fpc' = [fpc EXCEPT ![x] = "subscribed"]
    /\ UNCHANGED <<tprogress, flocal, fdrop, fpanic>>

\* The cleanup function, line 105: t.mu.Lock().
CleanupLock(x) ==
    /\ fpanic = "none"
    /\ fpc[x] = "subscribed"
    /\ tmu = "none"
    /\ tmu' = x
    /\ fpc' = [fpc EXCEPT ![x] = "cleanup"]
    /\ UNCHANGED <<tsubs, tprogress, flocal, fch, fdrop, fpanic>>

\* The cleanup function, lines 107-112 and the deferred Unlock: the channel
\* is taken out of t.subscribers.
CleanupLocked(x) ==
    /\ fpanic = "none"
    /\ fpc[x] = "cleanup"
    /\ tsubs' = SelectSeq(tsubs, LAMBDA y : y # x)
    /\ tmu' = "none"
    /\ fpc' = [fpc EXCEPT ![x] = "left"]
    /\ UNCHANGED <<tprogress, flocal, fch, fdrop, fpanic>>

InitFanOut ==
    /\ records = [x \in {} |-> <<>>]
    /\ identifiers = {}
    /\ classifications = {}
    /\ upc = [w \in Workers |-> "idle"]
    /\ urec = [w \in Workers |-> NilRecord]
    /\ uret = [w \in Workers |-> "none"]
    /\ called = {}
    /\ repeated = {}
    /\ ncalls = 0
    /\ syncs = {}
    /\ torrents = [b \in {} |-> NoTorrent]
    /\ now = 0
    /\ mpc = "loop"
    /\ sleepDuration = 0
    /\ wakeAt = 0
    /\ lastSync = NilSync
    /\ picked = NoTorrent
    /\ serr = "none"
    /\ env = [disableSync |-> FALSE, keepFiles |-> FALSE]
    /\ added = {}
    /\ dataDir = "present"
    /\ files = <<>>
    /\ wst = <<>>
    /\ nrec = <<>>
    /\ results = <<>>
    /\ stats = IdleStats
    /\ syncBase = ""
    /\ cache = NoStats
    /\ att = [outcome |-> "none", endSyncs |-> 0, recomputes |-> 0, storeError |-> FALSE]
    /\ inSync = 0
    /\ catalog = <<>>
    /\ latest = NotCalled
    /\ storage = "ok"
    /\ epubFile = NoFile
    /\ active = NoTracker
    /\ trk = [c \in Callers |-> newDownloadTracker]
    /\ flight = NoCaller
    /\ cpc = [c \in Callers |-> "idle"]
    /\ ctrk = [c \in Callers |-> NoTracker]
    /\ cjoin = [c \in Callers |-> NoCaller]
    /\ fnres = [c \in Callers |-> "none"]
    /\ cres = [c \in Callers |-> "none"]
    /\ dlBytes = 0
    /\ dlLost = FALSE
    /\ ran = {}
    /\ magnets = 0
    /\ peers = [c \in Callers |-> {}]
    /\ cstart = [c \in Callers |-> "none"]
    /\ chans = [x \in Subscribers |-> [buf |-> <<>>, closed |-> FALSE]]
    /\ spc = [x \in Subscribers |-> "none"]
    /\ got = [x \in Subscribers |-> NoEvents]
    /\ muWriter = NoProc
    /\ muReaders = {}
    /\ ppc = [p \in StatProcs |-> "idle"]
    /\ pop = [p \in StatProcs |-> "none"]
    /\ pbuild = [p \in StatProcs |-> NewStats]
    /\ pret = [p \in StatProcs |-> NotCalled]
    /\ pq = [p \in StatProcs |-> FALSE]
    /\ dstatus = "none"
    /\ backing = [a \in Arrays |-> <<>>]
    /\ filesRef = NoArray
    /\ snap = NotCalled
    /\ snapSeen = NotCalled
    /\ isbnCode = <<>>
    /\ isbn13 = NotCalled
    /\ isbn10 = NotCalled
    /\ isbnBack = NotCalled
    /\ held = [w \in Workers |-> {}]
    /\ todo = [w \in Workers |-> <<>>]
    /\ tfiles = <<>>
    /\ sel = NotCalled
    /\ shardIn = [lines |-> <<>>, fragment |-> "", end |-> "eof"]
    /\ spos = 1
    /\ sbusy = FALSE
    /\ sinv = <<>>
    /\ scount = 0
    /\ sres = NotCalled
    /\ orch = "idle"
    /\ wrun = {}
    /\ smpPc = "none"
    /\ doneClosed = FALSE
    /\ tickerC = 0
    /\ nticks = 0
    /\ smpFile = 0
    /\ fileIndex = -1
    /\ calledAt = {}
    /\ wroteAt = {}
    /\ rmu = [writer |-> "none", readers |-> {}]
    /\ rpc = [g \in RegGoroutines |-> "idle"]
    /\ qrun = FALSE
    /\ rsnap = [h \in SnapshotCallers |-> NotCalled]
    /\ tmu = "none"
    /\ tsubs = <<>>
    /\ tprogress = "DOWNLOADING"
    /\ fpc = [g \in FanGoroutines |-> "idle"]
    /\ flocal = [e \in Executions |-> <<>>]
    /\ fch = [x \in FanSubscribers |-> [len |-> 0, closed |-> FALSE]]
    /\ fdrop = [x \in FanSubscribers |-> FALSE]
    /\ fpanic = "none"
    /\ hpc = [c \in Downloads |-> "idle"]
    /\ hctx = [c \in Downloads |-> FALSE]
    /\ hcancelAt = [c \in Downloads |-> "none"]
    /\ htorrent = [added |-> FALSE, info |-> FALSE]
    /\ hhandle = [c \in Downloads |-> "none"]
    /\ hbytes = [c \in Downloads |-> 0]
    /\ hdisk = [c \in Downloads |-> NoFile]
    /\ hres = [c \in Downloads |-> NotCalled]
    /\ hactive = [c \in Downloads |-> FALSE]

NextFanOut ==
    \/ \E e \in Executions : TrackerLock(e, "update") /\ UNCHANGED OutsideFanOut
    \/ \E e \in Executions : UpdateCopy(e) /\ UNCHANGED OutsideFanOut
    \/ \E e \in Executions : UpdateSend(e) /\ UNCHANGED OutsideFanOut
    \/ \E e \in Executions : TrackerLock(e, "complete") /\ UNCHANGED OutsideFanOut
    \/ \E e \in Executions : CompleteTake(e) /\ UNCHANGED OutsideFanOut
    \/ \E e \in Executions : CompleteSendClose(e) /\ UNCHANGED OutsideFanOut
    \/ \E x \in FanSubscribers : TrackerLock(x, "subscribe") /\ UNCHANGED OutsideFanOut
    \/ \E x \in FanSubscribers : SubscribeLocked(x) /\ UNCHANGED OutsideFanOut
    \/ \E x \in FanSubscribers : CleanupLock(x) /\ UNCHANGED OutsideFanOut
    \/ \E x \in FanSubscribers : CleanupLocked(x) /\ UNCHANGED OutsideFanOut

SpecFanOut == InitFanOut /\ [][NextFanOut]_vars


\* ------------------------------------------------------------------ shared torrent

OutsideHandle == <<dbVars, sinkVars, syncVars, pickVars, epubVars, statVars,
                   dstatus, regVars, isbnVars, lockVars, selVars, shardVars,
                   smpVars, rlockVars, fanVars>>

Result(err, data) == [err |-> err, data |-> data]

NoData == 0

\* t.Drop(): the torrent leaves the client and is closed, for every holder of
\* the handle; on a handle whose torrent has left already nothing changes.
Drop(c) ==
    IF hhandle[c] = "live"
    THEN /\ htorrent' = [added |-> FALSE, info |-> htorrent.info]
         /\ hhandle' = [d \in Downloads |-> IF hhandle[d] = "live" THEN "dropped" ELSE hhandle[d]]
    ELSE UNCHANGED <<htorrent, hhandle>>

\* A return of downloadFileInternal that leaves the torrent in the client.
ReturnKeepTorrent(c) == UNCHANGED <<htorrent, hhandle>>

\* <-t.GotInfo() is ready: the metadata arrived while the handle was live.
GotInfo(c) == hhandle[c] # "none" /\ htorrent.info

\* DownloadFile, lines 158-172: nothing is on disk under the outputFilename,
\* the tracker is registered and the single-flight function is entered (the
\* key is this call's own).
HandleStart(c) ==
    /\ hpc[c] = "idle"
    /\ hdisk[c] = NoFile
    /\ hactive' = [hactive EXCEPT ![c] = TRUE]
    /\ hpc' = [hpc EXCEPT ![c] = "add"]
    /\ UNCHANGED <<hctx, hcancelAt, htorrent, hhandle, hbytes, hdisk, hres>>

\* downloadFileInternal, lines 194-198: client.AddMagnet returns the torrent
\* of the magnet, adding it when the client does not hold it; or fails.
HandleAddMagnet(c, ok) ==
    /\ hpc[c] = "add"
    /\ IF ok
       THEN /\ htorrent' = IF htorrent.added THEN htorrent
                           ELSE [added |-> TRUE, info |-> FALSE]
            /\ hhandle' = [hhandle EXCEPT ![c] = "live"]
            /\ hpc' = [hpc EXCEPT ![c] = "info"]
            /\ UNCHANGED hres
       ELSE /\ hres' = [hres EXCEPT ![c] = Result("failed to add magnet", NoData)]
            /\ hpc' = [hpc EXCEPT ![c] = "complete"]
            /\ UNCHANGED <<htorrent, hhandle>>
    /\ UNCHANGED <<hctx, hcancelAt, hbytes, hdisk, hactive>>

\* The swarm delivers the metadata of the added torrent.
MetadataArrives ==
    /\ htorrent.added
    /\ ~htorrent.info
    /\ htorrent' = [htorrent EXCEPT !.info = TRUE]
    /\ UNCHANGED <<hpc, hctx, hcancelAt, hhandle, hbytes, hdisk, hres, hactive>>

\* lines 202-242, the select takes <-t.GotInfo(): the file is looked up;
\* found, it is requested and the polling starts; not found, the call
\* returns the error and the deferred t.Drop() runs.
HandleGotInfo(c, found) ==
    /\ hpc[c] = "info"
    /\ GotInfo(c)
    /\ IF found
       THEN /\ hpc' = [hpc EXCEPT ![c] = "poll"]
            /\ UNCHANGED <<hres, htorrent, hhandle>>
       ELSE /\ hres' = [hres EXCEPT ![c] = Result("file not found in torrent", NoData)]
            /\ Drop(c)
            /\ hpc' = [hpc EXCEPT ![c] = "complete"]
    /\ UNCHANGED <<hctx, hcancelAt, hbytes, hdisk, hactive>>

\* lines 202-206, the select takes <-ctx.Done(): return ctx.Err(), and the
\* deferred t.Drop() runs.
HandleInfoCancelled(c) ==
    /\ hpc[c] = "info"
    /\ hctx[c]
    /\ hres' = [hres EXCEPT ![c] = Result("context canceled", NoData)]
    /\ Drop(c)
    /\ hpc' = [hpc EXCEPT ![c] = "complete"]
    /\ UNCHANGED <<hctx, hcancelAt, hbytes, hdisk, hactive>>

\* The swarm delivers one more piece of a file that is being polled, as long
\* as the torrent is in the client.
HandlePieceArrives(c) ==
    /\ hpc[c] = "poll"
    /\ hhandle[c] = "live"
    /\ hbytes[c] < FileLength
    /\ hbytes' = [hbytes EXCEPT ![c] = @ + 1]
    /\ UNCHANGED <<hpc, hctx, hcancelAt, htorrent, hhandle, hdisk, hres, hactive>>

\* HandlePollCancelled without the deferred t.Drop().
HandlePollCancelledNoDrop(c) ==
    /\ hpc[c] = "poll"
    /\ hbytes[c] < FileLength
    /\ hctx[c]
    /\ hres' = [hres EXCEPT ![c] = Result("context canceled", NoData)]
    /\ ReturnKeepTorrent(c)
    /\ hpc' = [hpc EXCEPT ![c] = "complete"]
    /\ UNCHANGED <<hctx, hcancelAt, hbytes, hdisk, hactive>>

\* lines 245-250: the loop condition holds and the select takes
\* <-ctx.Done(): return ctx.Err(), and the deferred t.Drop() runs. (With the
\* context live the select takes default, sleeps and the loop goes round.)
HandlePollCancelled(c) ==
    /\ hpc[c] = "poll"
    /\ hbytes[c] < FileLength
    /\ hctx[c]
    /\ hres' = [hres EXCEPT ![c] = Result("context canceled", NoData)]
    /\ Drop(c)
    /\ hpc' = [hpc EXCEPT ![c] = "complete"]
    /\ UNCHANGED <<hctx, hcancelAt, hbytes, hdisk, hactive>>

\* lines 245, 255: the loop condition fails, the loop is left whatever the
\* context.
HandleLoopExit(c) ==
    /\ hpc[c] = "poll"
    /\ hbytes[c] >= FileLength
    /\ hpc' = [hpc EXCEPT ![c] = "read"]
    /\ UNCHANGED <<hctx, hcancelAt, htorrent, hhandle, hbytes, hdisk, hres, hactive>>

\* lines 259-283: the file is read through the torrent reader, written under
\* the outputFilename and returned, and the deferred t.Drop() runs. A read
\* through a handle whose torrent was dropped may fail.
HandleRead(c, ok) ==
    /\ hpc[c] = "read"
    /\ ok \/ hhandle[c] = "dropped"
    /\ IF ok
       THEN /\ hres' = [hres EXCEPT ![c] = Result("nil", c)]
            /\ hdisk' = [hdisk EXCEPT ![c] = c]
       ELSE /\ hres' = [hres EXCEPT ![c] = Result("failed to read file", NoData)]
            /\ UNCHANGED hdisk
    /\ Drop(c)
    /\ hpc' = [hpc EXCEPT ![c] = "complete"]
    /\ UNCHANGED <<hctx, hcancelAt, hbytes, hactive>>

\* lines 173-176 and 187-190: the deferred tracker.complete() and
\* activeDownloads.Delete(outputFilename), then DownloadFile returns.
HandleReturn(c) ==
    /\ hpc[c] = "complete"
    /\ hactive' = [hactive EXCEPT ![c] = FALSE]
    /\ hpc' = [hpc EXCEPT ![c] = "done"]
    /\ UNCHANGED <<hctx, hcancelAt, htorrent, hhandle, hbytes, hdisk, hres>>

\* The caller's request is cancelled while its download is in flight.
HandleCancel(c) ==
    /\ hpc[c] \in {"add", "info", "poll", "read"}
    /\ ~hctx[c]
    /\ hctx' = [hctx EXCEPT ![c] = TRUE]
    /\ hcancelAt' = [hcancelAt EXCEPT ![c] = hpc[c]]
    /\ UNCHANGED <<hpc, htorrent, hhandle, hbytes, hdisk, hres, hactive>>

InitHandle ==
    /\ records = [x \in {} |-> <<>>]
    /\ identifiers = {}
    /\ classifications = {}
    /\ upc = [w \in Workers |-> "idle"]
    /\ urec = [w \in Workers |-> NilRecord]
    /\ uret = [w \in Workers |-> "none"]
    /\ called = {}
    /\ repeated = {}
    /\ ncalls = 0
    /\ syncs = {}
    /\ torrents = [b \in {} |-> NoTorrent]
    /\ now = 0
    /\ mpc = "loop"
    /\ sleepDuration = 0
    /\ wakeAt = 0
    /\ lastSync = NilSync
    /\ picked = NoTorrent
    /\ serr = "none"
    /\ env = [disableSync |-> FALSE, keepFiles |-> FALSE]
    /\ added = {}
    /\ dataDir = "present"
    /\ files = <<>>
    /\ wst = <<>>
    /\ nrec = <<>>
    /\ results = <<>>
    /\ stats = IdleStats
    /\ syncBase = ""
    /\ cache = NoStats
    /\ att = [outcome |-> "none", endSyncs |-> 0, recomputes |-> 0, storeError |-> FALSE]
    /\ inSync = 0
    /\ catalog = <<>>
    /\ latest = NotCalled
    /\ storage = "ok"
    /\ epubFile = NoFile
    /\ active = NoTracker
    /\ trk = [c \in Callers |-> newDownloadTracker]
    /\ flight = NoCaller
    /\ cpc = [c \in Callers |-> "idle"]
    /\ ctrk = [c \in Callers |-> NoTracker]
    /\ cjoin = [c \in Callers |-> NoCaller]
    /\ fnres = [c \in Callers |-> "none"]
    /\ cres = [c \in Callers |-> "none"]
    /\ dlBytes = 0
    /\ dlLost = FALSE
    /\ ran = {}
    /\ magnets = 0
    /\ peers = [c \in Callers |-> {}]
    /\ cstart = [c \in Callers |-> "none"]
    /\ chans = [x \in Subscribers |-> [buf |-> <<>>, closed |-> FALSE]]
    /\ spc = [x \in Subscribers |-> "none"]
    /\ got = [x \in Subscribers |-> NoEvents]
    /\ muWriter = NoProc
    /\ muReaders = {}
    /\ ppc = [p \in StatProcs |-> "idle"]
    /\ pop = [p \in StatProcs |-> "none"]
    /\ pbuild = [p \in StatProcs |-> NewStats]
    /\ pret = [p \in StatProcs |-> NotCalled]
    /\ pq = [p \in StatProcs |-> FALSE]
    /\ dstatus = "none"
    /\ backing = [a \in Arrays |-> <<>>]
    /\ filesRef = NoArray
    /\ snap = NotCalled
    /\ snapSeen = NotCalled
    /\ isbnCode = <<>>
    /\ isbn13 = NotCalled
    /\ isbn10 = NotCalled
    /\ isbnBack = NotCalled
    /\ held = [w \in Workers |-> {}]
    /\ todo = [w \in Workers |-> <<>>]
    /\ tfiles = <<>>
    /\ sel = NotCalled
    /\ shardIn = [lines |-> <<>>, fragment |-> "", end |-> "eof"]
    /\ spos = 1
    /\ sbusy = FALSE
    /\ sinv = <<>>
    /\ scount = 0
    /\ sres = NotCalled
    /\ orch = "idle"
    /\ wrun = {}
    /\ smpPc = "none"
    /\ doneClosed = FALSE
    /\ tickerC = 0
    /\ nticks = 0
    /\ smpFile = 0
    /\ fileIndex = -1
    /\ calledAt = {}
    /\ wroteAt = {}
    /\ rmu = [writer |-> "none", readers |-> {}]
    /\ rpc = [g \in RegGoroutines |-> "idle"]
    /\ qrun = FALSE
    /\ rsnap = [h \in SnapshotCallers |-> NotCalled]
    /\ tmu = "none"
    /\ tsubs = <<>>
    /\ tprogress = "DOWNLOADING"
    /\ fpc = [g \in FanGoroutines |-> "idle"]
    /\ flocal = [e \in Executions |-> <<>>]
    /\ fch = [x \in FanSubscribers |-> [len |-> 0, closed |-> FALSE]]
    /\ fdrop = [x \in FanSubscribers |-> FALSE]
    /\ fpanic = "none"
    /\ hpc = [c \in Downloads |-> "idle"]
    /\ hctx = [c \in Downloads |-> FALSE]
    /\ hcancelAt = [c \in Downloads |-> "none"]
    /\ htorrent = [added |-> FALSE, info |-> FALSE]
    /\ hhandle = [c \in Downloads |-> "none"]
    /\ hbytes = [c \in Downloads |-> 0]
    /\ hdisk = [c \in Downloads |-> NoFile]
    /\ hres = [c \in Downloads |-> NotCalled]
    /\ hactive = [c \in Downloads |-> FALSE]

NextHandle ==
    \/ \E c \in Downloads : HandleStart(c) /\ UNCHANGED OutsideHandle
    \/ \E c \in Downloads, ok \in BOOLEAN : HandleAddMagnet(c, ok) /\ UNCHANGED OutsideHandle
    \/ MetadataArrives /\ UNCHANGED OutsideHandle
    \/ \E c \in Downloads, found \in BOOLEAN : HandleGotInfo(c, found) /\ UNCHANGED OutsideHandle
    \/ \E c \in Downloads : HandleInfoCancelled(c) /\ UNCHANGED OutsideHandle
    \/ \E c \in Downloads : HandlePieceArrives(c) /\ UNCHANGED OutsideHandle
    \/ \E c \in Downloads : HandlePollCancelled(c) /\ UNCHANGED OutsideHandle
    \/ \E c \in Downloads : HandleLoopExit(c) /\ UNCHANGED OutsideHandle
    \/ \E c \in Downloads, ok \in BOOLEAN : HandleRead(c, ok) /\ UNCHANGED OutsideHandle
    \/ \E c \in Downloads : HandleReturn(c) /\ UNCHANGED OutsideHandle
    \/ \E c \in Downloads : HandleCancel(c) /\ UNCHANGED OutsideHandle

SpecHandle == InitHandle /\ [][NextHandle]_vars


\* ------------------------------------------------------------------ properties

AllIdle == \A w \in Workers : upc[w] = "idle"

\* The (type, value) pairs of an identifiers_unified / classifications_unified
\* map, as stored.
UnifiedPairs(m) ==
    UNION {{<<sanitizeString(t), sanitizeString(m[t][i])>> : i \in 1..Len(m[t])} :
           t \in DOMAIN m}

StoredPairs(table, x) == {<<row[2], row[3]>> : row \in {q \in table : q[1] = x}}

EpubCalls(x) ==
    {r \in called : r # NilRecord /\ r.ExtensionBest = "epub" /\ sanitizeString(r.ID) = x}

\* C1: a Synchronization row with complete=true is written only when every
\* matched shard of the picked torrent was read to its end (EOF or unexpected
\* EOF) and reported a result, none with a fatal error; an attempt in which a
\* shard worker hit a fatal error writes no complete=true row.
C1_CompleteOnlyAfterCleanPass ==
    [][\A row \in syncs' \ syncs : row.Complete =>
          /\ Len(results) = Len(files)
          /\ \A i \in DOMAIN wst : wst[i] \in {"eof", "unexpectedEOF"}
          /\ \A k \in 1..Len(results) : results[k].Error = "nil"]_vars

C1_Witness ==
    /\ mpc = "returned" /\ att.outcome = "ok"
    /\ Len(files) = 2
    /\ \E i \in DOMAIN wst : wst[i] = "unexpectedEOF"
    /\ \E row \in syncs : row.Complete /\ row.Date = now

\* C2: a Record row with (stored) id X exists only if some Upsert call carried
\* an epub record whose id is stored as X; an Upsert of a nil or non-epub
\* record returns success and changes no table.
C2_OnlyEpubPersisted ==
    /\ [](\A x \in DOMAIN records : EpubCalls(x) # {})
    /\ [][\A w \in Workers : \A r \in Inputs :
             (UpsertBegin(w, r) /\ (r = NilRecord \/ r.ExtensionBest # "epub"))
                => (UNCHANGED dbVars /\ uret'[w] = "ok" /\ upc'[w] = "idle")]_vars

C2_Witness ==
    /\ NilRecord \in called
    /\ \E r \in called : r # NilRecord /\ r.ExtensionBest = "pdf"
    /\ DOMAIN records # {}
    /\ AllIdle

\* C3: in every reachable state of the store, under concurrent Upserts and
\* Upserts that fail at any statement, every RecordIdentifier and
\* RecordClassification row has a Record row of the same id.
C3_NoOrphanChildren ==
    \A row \in identifiers \cup classifications : row[1] \in DOMAIN records

C3_Witness ==
    /\ \E w \in Workers : uret[w] = "record" /\ upc[w] = "idle"
    /\ \E w \in Workers : upc[w] = "classifications"
    /\ identifiers # {}
    /\ Cardinality(DOMAIN records) = 1

\* C4: Upsert is idempotent: from every reachable store and for every input r,
\* the store after two or three calls of Upsert(r) equals the store after one.
C4_UpsertIdempotent ==
    \A r \in Inputs :
        LET once == UpsertRecordAndIdentifiers(DB, r).db
            twice == UpsertRecordAndIdentifiers(once, r).db
            thrice == UpsertRecordAndIdentifiers(twice, r).db
        IN  twice = once /\ thrice = once

C4_Witness ==
    /\ AllIdle
    /\ \E r \in repeated :
          /\ r # NilRecord /\ r.ExtensionBest = "epub"
          /\ sanitizeString(r.ID) \in DOMAIN records
          /\ StoredPairs(identifiers, sanitizeString(r.ID)) # {}
          /\ UpsertRecordAndIdentifiers(DB, r).db = DB

\* C5: once all calls have returned, the stored identifier rows (and the
\* classification rows) of every id are exactly the union of the (type, value)
\* pairs of all epub inputs upserted for that id.
C5_ChildrenAreUnion ==
    AllIdle =>
        \A x \in {sanitizeString(r.ID) : r \in called \ {NilRecord}} :
            /\ StoredPairs(identifiers, x) =
                  UNION {UnifiedPairs(r.IdentifiersUnified) : r \in EpubCalls(x)}
            /\ StoredPairs(classifications, x) =
                  UNION {UnifiedPairs(r.ClassificationsUnified) : r \in EpubCalls(x)}

\* C6: after an Upsert of an epub record whose identifiers_unified holds the
\* same (type, value) pair twice, exactly one RecordIdentifier row exists for
\* that (record_id, type, value).
C6_DuplicateYieldsOneRow ==
    AllIdle =>
        \A r \in called \ {NilRecord} : r.ExtensionBest = "epub" =>
            \A t \in DOMAIN r.IdentifiersUnified :
                \A i, j \in 1..Len(r.IdentifiersUnified[t]) :
                    (i < j /\ r.IdentifiersUnified[t][i] = r.IdentifiersUnified[t][j]) =>
                        Cardinality({row \in identifiers :
                            row = <<sanitizeString(r.ID), sanitizeString(t),
                                    sanitizeString(r.IdentifiersUnified[t][i])>>}) = 1

\* C7: when the latest Synchronization row's base equals the display name of
\* the picked torrent, Sync writes exactly one new row with that base and
\* complete=false, adds no magnet, starts no shard worker, writes no Record
\* row and returns; the latest row counts whether or not it is complete.
C7_AlreadySyncedSkips ==
    [][(/\ mpc = "sync" /\ mpc' # "sync"
        /\ picked' # NoTorrent
        /\ ~env.disableSync
        /\ syncs # {}
        /\ LatestRow(syncs).Base = picked'.DisplayName)
         => /\ syncs \subseteq syncs'
            /\ syncs' \ syncs = {[Date |-> now, Base |-> picked'.DisplayName,
                                  Complete |-> FALSE]}
            /\ added' = added
            /\ files' = <<>> /\ wst' = <<>>
            /\ UNCHANGED dbVars
            /\ mpc' = "returned" /\ serr' = "nil"]_vars

C7_Witness ==
    /\ mpc = "returned" /\ att.outcome = "already"
    /\ lastSync # NilSync /\ ~lastSync.Complete
    /\ Cardinality({row \in syncs : ~row.Complete}) = 2

\* C8: every sync attempt that ends, whatever its outcome, has called EndSync
\* and triggered a forced stats recompute.
C8_EveryAttemptEndsSync ==
    mpc \in {"returned", "crashed"} => att.endSyncs >= 1 /\ att.recomputes >= 1

\* C9: with no Synchronization row the loop sleeps for zero time; otherwise an
\* attempt never starts before the date of the most recent row plus 24 h,
\* complete or not; at most one attempt is in progress.
C9_CadenceFromLatestRow ==
    /\ [](inSync <= 1)
    /\ [](mpc = "sleep" /\ syncs = {} => sleepDuration = 0)
    /\ [][(mpc = "sleep" /\ mpc' = "sync" /\ syncs # {})
             => now' >= LatestRow(syncs).Date + Day]_vars

C9_Witness ==
    /\ mpc = "sync" /\ inSync = 1
    /\ syncs # {} /\ ~LatestRow(syncs).Complete
    /\ now = LatestRow(syncs).Date + Day

\* C10: after a failed sync attempt the orchestrator does not retry at once:
\* the sleep before the next attempt is not zero.
C10_FailedAttemptWaits ==
    (mpc = "sleep" /\ att.outcome = "failed") => sleepDuration > 0

\* The filter of GetLastMetadataTorrent.
IsLiveMetadata(t) ==
    /\ t.GroupName = "aa_derived_mirror_metadata"
    /\ t.TopLevelGroupName = "other_aa"
    /\ ~t.Obsolete

\* C11: for every catalog GetLastMetadataTorrent returns a non-obsolete
\* aa_derived_mirror_metadata / other_aa entry whose added-at is not below that
\* of any other such entry, and it returns nil exactly when the catalog holds
\* no such entry.
C11_PicksLatestMetadata ==
    latest # NotCalled =>
        LET live == {i \in 1..Len(catalog) : IsLiveMetadata(catalog[i])}
        IN  /\ (latest = NoTorrent) <=> (live = {})
            /\ latest # NoTorrent =>
                  /\ \E i \in live : catalog[i] = latest
                  /\ \A j \in live :
                        ~StringGreater(catalog[j].AddedToTorrentsListAt,
                                       latest.AddedToTorrentsListAt)

\* Two calls overlap in time; a call went past the outer disk check.
Concurrent(c, d) == d \in peers[c] \/ c \in peers[d]
FoundNoFile(c) == ctrk[c] # NoTracker
DownloadErrors == {"failed to add magnet", "file not found in torrent",
                   "failed to read file"}

\* C12 as stated: two concurrent DownloadFile calls for the same file that both found
\* no file on disk coalesce: they return the same result and at most one of
\* them ran downloadFileInternal (one magnet add).
C12_ConcurrentCallsCoalesce ==
    \A c, d \in Callers :
        (/\ c # d /\ Concurrent(c, d)
         /\ cpc[c] = "done" /\ cpc[d] = "done"
         /\ FoundNoFile(c) /\ FoundNoFile(d))
            => /\ cres[c] = cres[d]
               /\ ~(c \in ran /\ d \in ran)

\* The callers that are inside the single-flight function fn.
InFn == {c \in Callers : cpc[c] \in {"fn", "add", "info", "poll", "read",
                                      "complete", "delete", "release"}}

\* C12, amended: DownloadFile calls that reach the single-flight gate while a
\* call for the same key is in flight coalesce with it: at most one call runs
\* fn at a time, a call that joined never runs downloadFileInternal (adds no
\* magnet) and receives the result of the call it joined.
C12_JoinedCallsCoalesce ==
    /\ Cardinality(InFn) <= 1
    /\ \A c \in Callers :
          cjoin[c] # NoCaller =>
              /\ c \notin ran
              /\ cpc[c] = "done" =>
                    /\ cpc[cjoin[c]] = "done"
                    /\ cres[c] = cres[cjoin[c]]

C12_Witness ==
    \E c \in Callers :
        /\ cjoin[c] # NoCaller /\ cpc[c] = "done"
        /\ cres[c] = "bytes" /\ cjoin[c] \in ran /\ magnets = 1

Attached(t, x) == \E k \in 1..Len(trk[t].subscribers) : trk[t].subscribers[k] = x

C15_FinalEventBeforeClose ==
    \A x \in Subscribers :
        chans[x].closed =>
            \/ got[x].downloaded
            \/ \E k \in 1..Len(chans[x].buf) : chans[x].buf[k].Status = "DOWNLOADED"

\* C16: CleanupFiles runs only when no torrent is added to the client.
C16_PurgeOnlyWhenNothingAdded ==
    [][(Purges /\ mpc' # mpc) => added = {}]_vars

\* C17: a DownloadFile call made while a sync attempt is running, whose
\* magnet was added and whose file is in the torrent, returns the file's
\* bytes.
C17_DownloadDuringSyncSucceeds ==
    \A c \in Callers :
        (/\ cpc[c] = "done" /\ cstart[c] = "syncing"
         /\ cres[c] \notin {"failed to add magnet", "file not found in torrent"})
            => cres[c] = "bytes"

\* Goroutine p starts a call in this step.
Began(p) ==
    /\ ppc[p] = "idle"
    /\ <<pop[p], pq[p], pret[p], pbuild[p], ppc[p]>>
          # <<pop'[p], pq'[p], pret'[p], pbuild'[p], ppc'[p]>>

\* cache.mu is held, by a writer or by readers.
LockHeld == muWriter # NoProc \/ muReaders # {}

\* C18: at most one recompute executes at a time; a call with force=false
\* made while the lock is held returns absent without querying the store or
\* changing the cache, and otherwise recomputes; a call with force=true never
\* returns before it has taken the lock and queried the store.
C18_SingleFlightRecompute ==
    /\ [](Cardinality(Computing) <= 1)
    /\ [](\A p \in Computing : muWriter = p /\ muReaders = {})
    /\ [][\A p \in StatProcs :
            /\ (Began(p) /\ pop'[p] = "lazy" /\ LockHeld)
                 => /\ ppc'[p] = "idle" /\ pret'[p] = NoStats /\ ~pq'[p]
                    /\ cache' = cache /\ muWriter' = muWriter
            /\ (Began(p) /\ pop'[p] = "lazy" /\ ~LockHeld)
                 => ppc'[p] = "query" /\ muWriter' = p
            /\ (Began(p) /\ pop'[p] = "force") => ppc'[p] = "lock"
            /\ (pop[p] = "force" /\ ppc[p] # "idle" /\ ppc'[p] = "idle") => pq'[p]]_vars

C18_Witness ==
    \E p, q \in StatProcs :
        /\ pop[p] = "lazy" /\ ppc[p] = "idle" /\ pret[p] = NoStats /\ ~pq[p]
        /\ pop[q] = "force" /\ q \in Computing /\ cache # NoStats

\* C19 as stated: a Get called while no recompute holds the write lock and a
\* snapshot has been published does not return absent.
C19_AbsentOnlyDuringRecompute ==
    [][\A p \in StatProcs :
          (Began(p) /\ pop'[p] = "get" /\ HoldsWrite = {} /\ cache # NoStats)
              => ~(ppc'[p] = "idle" /\ pret'[p] = NoStats)]_vars

\* C19, amended: Get never waits: called while a recompute holds the write
\* lock, or has claimed it and waits for readers to leave, it returns absent
\* at once; called otherwise it returns the last published snapshot
\* unchanged; the cache never holds a partially built snapshot and no
\* recompute runs while a reader holds its lock.
C19_GetNeverWaits ==
    /\ [][\A p \in StatProcs :
            /\ (Began(p) /\ pop'[p] = "get")
                 => IF muWriter # NoProc
                    THEN ppc'[p] = "idle" /\ pret'[p] = NoStats
                    ELSE ppc'[p] = "read" /\ p \in muReaders'
            /\ (ppc[p] = "read" /\ ppc'[p] = "idle")
                 => pret'[p] = cache /\ cache' = cache]_vars
    /\ [](\A p \in StatProcs : ppc[p] = "read" => p \in muReaders /\ Computing = {})
    /\ [](cache # NoStats => cache.LastSync # NewStats.LastSync)

C19_Witness ==
    \E p, q \in StatProcs :
        /\ pop[p] = "get" /\ ppc[p] = "idle" /\ pret[p] = NoStats
        /\ cache # NoStats /\ q \in Computing

C21_StatsReflectSync ==
    [][(mpc = "finish" /\ mpc' = "returned" /\ serr' = "nil")
          => /\ [Date |-> now, Base |-> picked.DisplayName, Complete |-> TRUE] \in syncs'
             /\ cache' # NoStats
             /\ cache'.Base = picked.DisplayName
             /\ cache'.LastSync = now
             /\ cache'.Count = Cardinality(DOMAIN records')]_vars

C21_Witness ==
    /\ mpc = "returned" /\ serr = "nil" /\ att.outcome = "ok"
    /\ cache # NoStats /\ cache.Count >= 1
    /\ cache.Base = picked.DisplayName
    /\ \E r \in syncs : r.Complete /\ r.Base # picked.DisplayName

\* C22: GetDownloadStatus answers DOWNLOADED when the file is in the storage
\* directory, whether or not a tracker is registered; otherwise DOWNLOADING
\* when a tracker is registered; otherwise NOT_STARTED.
C22_StatusByDiskThenTracker ==
    [][(dstatus = "none" /\ dstatus' # "none")
          => /\ (epubFile # NoFile /\ storage # "unset") => dstatus' = "DOWNLOADED"
             /\ (~(epubFile # NoFile /\ storage # "unset") /\ active # NoTracker)
                   => dstatus' = "DOWNLOADING"
             /\ (~(epubFile # NoFile /\ storage # "unset") /\ active = NoTracker)
                   => dstatus' = "NOT_STARTED"]_vars

C22_Witness ==
    /\ dstatus = "DOWNLOADED" /\ active # NoTracker
    /\ epubFile # NoFile /\ cpc[1] = "complete" /\ 1 \in ran


\* C23: a snapshot returned by GetStats is a deep copy of the registry: no
\* later StartSync, UpdateFileDownload, UpdateFileProcessed or EndSync changes
\* any value read through the snapshot already handed out.
C23_SnapshotIsDeepCopy ==
    snap # NotCalled => ReadStats(snap, backing) = snapSeen

\* The registry itself reads as the value the calls built.
RegistryReadsAsStats ==
    ReadStats([IsRunning |-> stats.IsRunning, Base |-> stats.Base,
               Files |-> [array |-> filesRef,
                          len |-> IF filesRef = NoArray THEN 0
                                  ELSE Len(backing[filesRef])]], backing) = stats

\* The value of an ISBN-10 character: X stands for ten.
Isbn10Val(c) == IF c = "X" THEN 10 ELSE DigitVal(c)

\* An ISBN-10 as the standard defines it: nine digits and a check character
\* (a digit or X) that makes the sum of 10*x1 + 9*x2 + ... + 1*x10 a
\* multiple of eleven.
ValidIsbn10(x) ==
    /\ Len(x) = 10
    /\ \A i \in 1..9 : IsDigit(x[i])
    /\ IsDigit(x[10]) \/ x[10] = "X"
    /\ (10 * Isbn10Val(x[1]) + 9 * Isbn10Val(x[2]) + 8 * Isbn10Val(x[3])
          + 7 * Isbn10Val(x[4]) + 6 * Isbn10Val(x[5]) + 5 * Isbn10Val(x[6])
          + 4 * Isbn10Val(x[7]) + 3 * Isbn10Val(x[8]) + 2 * Isbn10Val(x[9])
          + Isbn10Val(x[10])) % 11 = 0

\* C24: for every ISBN-10 of nine digits and its correct check character
\* (0-9 or X), To10(To13(x)) = x; To13 returns "" when the length is not 10 or
\* the first nine characters are not all digits; To10 returns "" when the
\* length is not 13, the value does not start with 978, or characters 4-12
\* are not all digits.
C24_IsbnRoundTrip ==
    /\ (isbnBack # NotCalled /\ ValidIsbn10(isbnCode)) => isbnBack.ret = isbnCode
    /\ (isbn13 # NotCalled
          /\ (Len(isbnCode) # 10 \/ \E i \in 1..9 : ~IsDigit(isbnCode[i])))
         => isbn13.ret = <<>>
    /\ (isbn10 # NotCalled
          /\ (\/ Len(isbnCode) # 13
              \/ SubSeq(isbnCode, 1, 3) # <<"9", "7", "8">>
              \/ \E i \in 4..12 : ~IsDigit(isbnCode[i])))
         => isbn10.ret = <<>>

C24_Witness ==
    /\ isbnBack # NotCalled
    /\ ValidIsbn10(isbnCode)
    /\ isbnCode[10] = "X"
    /\ isbnBack.ret = isbnCode
    /\ isbn13.ret # <<>>

\* C25: a shard worker's read error other than EOF or unexpected EOF reaches
\* the orchestrator as a failed shard result: Sync returns an error and the
\* process keeps running (no complete=true row is recorded for the attempt and
\* the records already upserted remain).
C25_ShardErrorReachesOrchestrator ==
    (\E i \in DOMAIN wst : wst[i] = "fatal") => mpc # "crashed"

\* C26: a database failure of an upsert during ingestion is fatal for the
\* sync attempt: once an OnRecord upsert has returned an error, the attempt
\* records no Synchronization row with complete=true (rows written before the
\* failure stay in the database).
C26_StoreErrorFailsAttempt ==
    [][att.storeError => \A row \in syncs' \ syncs : ~row.Complete]_vars

\* A Record row is one of the inputs, whole.
RowsAreWholeInputs ==
    \A x \in DOMAIN records :
        \E r \in called : ~IsDropped(r) /\ RecordID(r) = x /\ records[x] = BuildRecord(r)

PriorityOfRank(k) == IF k = 1 THEN "Now" ELSE IF k = 2 THEN "High" ELSE "Normal"

\* C28: after shard selection the matched files are in ascending numeric
\* order of their index (2 before 10), the progress registry entries follow
\* that order, and the download priorities go by rank: Now for the
\* lowest-indexed shard, High for the second, Normal for all others.
C28_OrderedAndPrioritised ==
    sel # NotCalled =>
       /\ \A j, k \in 1..Len(sel.matchedFiles) :
              j < k => ExtractFileIndex(sel.matchedFiles[j]) <= ExtractFileIndex(sel.matchedFiles[k])
       /\ sel.matchedFiles # <<>> => sel.fileNames.names = sel.matchedFiles
       /\ \A k \in 1..Len(sel.matchedFiles) : sel.priority[k] = PriorityOfRank(k)

\* C29: when no file of the torrent matches the shard pattern, the shard
\* processor returns success with zero results and starts no worker, and the
\* sync attempt succeeds with zero records: a Synchronization row with
\* complete=true and the torrent's display name is written and no Record row
\* is created.
C29_NoMatchSucceedsEmpty ==
    /\ []((mpc = "finish" /\ files = <<>>) =>
            /\ results = <<>>
            /\ \A i \in DOMAIN wst : wst[i] # "running")
    /\ [][(mpc = "finish" /\ files = <<>> /\ mpc' # "finish") =>
            /\ serr' = "nil"
            /\ [Date |-> now, Base |-> picked.DisplayName, Complete |-> TRUE] \in syncs'
            /\ records' = records]_vars
    /\ [][(mpc = "info" /\ mpc' = "finish") =>
            /\ files' = <<>>
            /\ wst' = wst
            /\ records' = records]_vars

C29_Witness ==
    /\ mpc = "returned" /\ serr = "nil" /\ att.outcome = "ok"
    /\ files = <<>>
    /\ [Date |-> now, Base |-> picked.DisplayName, Complete |-> TRUE] \in syncs
    /\ DOMAIN records = {}

\* The lines among the first n whose text is one of texts, in file order.
RECURSIVE LinesWhere(_, _)
LinesWhere(n, texts) ==
    IF n = 0 THEN <<>>
    ELSE IF shardIn.lines[n] \in texts THEN Append(LinesWhere(n - 1, texts), n)
    ELSE LinesWhere(n - 1, texts)

\* The lines processor.Record was called for, in call order.
CalledLines == [k \in 1..Len(sinv) |-> sinv[k].line]

\* C30: within one shard OnRecord is invoked exactly once for every
\* newline-terminated line that parses as JSON, in file byte order and never
\* while another OnRecord of the shard runs; a line that fails to parse is
\* skipped without aborting the shard; the returned record count equals the
\* number of OnRecord invocations of the shard.
C30_OnRecordPerJSONLine ==
    /\ [](CalledLines = LinesWhere(spos - 1, {t \in LineTexts : IsJSON(t)}))
    /\ [](sres # NotCalled => spos = Len(shardIn.lines) + 1)
    /\ [](sres # NotCalled => sres.RecordCount = Len(sinv))
    /\ [][Len(sinv') > Len(sinv) => ~sbusy]_vars

\* C30 as the code has it: OnRecord is invoked exactly once for every
\* newline-terminated line that unmarshals into a record without error, in
\* file order, one call at a time; every other line is skipped and the shard
\* goes on to its last complete line; a result without error carries the
\* number of OnRecord invocations, a result with a read error carries zero.
C30_OnRecordPerDecodedLine ==
    /\ [](CalledLines = LinesWhere(spos - 1, {t \in LineTexts : Unmarshal(t).err = "nil"}))
    /\ [](\A k \in 1..Len(sinv) : sinv[k].record = Unmarshal(shardIn.lines[sinv[k].line]).record)
    /\ [](sres # NotCalled =>
            /\ spos = Len(shardIn.lines) + 1
            /\ sres.Error = "nil" <=> shardIn.end # "error"
            /\ sres.Error = "nil" => sres.RecordCount = Len(sinv)
            /\ sres.Error # "nil" => sres.RecordCount = 0)
    /\ [][Len(sinv') > Len(sinv) => (~sbusy /\ Len(sinv') = Len(sinv) + 1)]_vars

C30_Witness ==
    /\ sres # NotCalled
    /\ sres.Error = "nil"
    /\ sres.RecordCount = 1
    /\ Len(shardIn.lines) = 2
    /\ Unmarshal(shardIn.lines[1]).err # "nil"
    /\ CalledLines = <<2>>
    /\ shardIn.fragment # ""

\* C31: a shard whose stream ends with an unexpected EOF is handled like a
\* clean EOF: the worker returns no error, its record count is the number of
\* lines fully parsed before the truncation, and processing 100% and download
\* 100% are reported for the path.
C31_UnexpectedEOFIsCleanEOF ==
    (sres # NotCalled /\ shardIn.end = "unexpectedEOF") =>
       /\ sres.Error = "nil"
       /\ sres.RecordCount
            = Len(LinesWhere(Len(shardIn.lines), {t \in LineTexts : Unmarshal(t).err = "nil"}))
       /\ stats.Files[1].Name = ShardFile
       /\ stats.Files[1].Processed = 100
       /\ stats.Files[1].Downloaded = 100

C31_Witness ==
    /\ sres # NotCalled
    /\ shardIn.end = "unexpectedEOF"
    /\ shardIn.fragment # ""
    /\ sres.RecordCount = 1
    /\ Len(shardIn.lines) = 2
    /\ stats.Files[1].Processed = 100

\* C32: the download sampler stops when all shard workers have finished: once
\* the shard processor has returned to the orchestrator the sampler makes no
\* further processor.Stats call, so no sampler update changes the registry
\* after the return, after EndSync or during a later sync.
C32_SamplerStopsWithWorkers ==
    /\ calledAt \subseteq {"workers"}
    /\ wroteAt \subseteq {"workers"}

\* C33: no registry operation waits on I/O: while a database query of the
\* forced stats recompute is running nobody holds the registry lock, and the
\* registry has been reset before the recompute starts.
C33_NoLockAcrossQuery ==
    qrun => /\ rmu.writer = "none"
            /\ rmu.readers = {}
            /\ stats = IdleStats

\* C34: update and complete never block the downloading goroutine: the
\* fan-out and the closing loop run with the tracker lock released, a send
\* to a full channel drops the event and moves on, and whoever holds the
\* lock hands it back in its next step, whatever the channels hold, so
\* subscribe and the cleanup wait for no subscriber.
C34_FanOutNeverBlocks ==
    /\ [](\A e \in Executions : fpc[e] \in {"fanout", "closing"} => tmu # e)
    /\ [](\A g \in FanGoroutines : tmu = g => fpc[g] \in {"update", "complete", "subscribe", "cleanup"})
    /\ [][\A e \in Executions :
             (fpc[e] = "fanout" /\ flocal[e] # <<>> /\ flocal'[e] # flocal[e]
                /\ fch[Head(flocal[e])].len = ChanCap /\ fpanic' = "none")
             => /\ fch' = fch
                /\ flocal'[e] = Tail(flocal[e])]_vars
    /\ [][tmu # "none" /\ tmu' # tmu => tmu' = "none"]_vars

C34_Witness ==
    /\ \E x \in FanSubscribers : fch[x].len = ChanCap /\ fdrop[x] /\ ~fch[x].closed
    /\ \E x \in FanSubscribers : fpc[x] = "subscribed" /\ fch[x].len = 1 /\ ~fdrop[x]
    /\ \E e \in Executions : fpc[e] = "done"
    /\ fpanic = "none"

\* C35: when the torrent holds no file of the requested path the download
\* fails with "file not found": nothing is written to storage and the torrent
\* is dropped, every caller coalesced with the failing one gets that error,
\* and once the calls have returned no tracker is registered, so the status
\* reads NOT_STARTED.
C35_NotFoundFailsCleanly ==
    /\ [][\A c \in Callers :
             (cpc[c] = "info" /\ cpc'[c] = "complete")
                => /\ fnres'[c] = "file not found in torrent"
                   /\ epubFile' = epubFile
                   /\ EpubMagnet \notin added']_vars
    /\ [][\A c \in Callers :
             (cpc[c] = "release" /\ cpc'[c] = "done"
                /\ fnres[c] = "file not found in torrent")
                => \A d \in Callers :
                      (d = c \/ (cpc[d] = "joined" /\ cjoin[d] = c))
                         => cres'[d] = "file not found in torrent"]_vars
    /\ []((/\ \E c \in Callers : cres[c] = "file not found in torrent"
           /\ \A c \in Callers : cpc[c] \in {"idle", "done"}
           /\ ~OnDisk)
             => GetDownloadStatus = "NOT_STARTED")

\* C36 as stated: a download whose context was cancelled while it awaited
\* the metadata or polled BytesCompleted returns the cancellation error, with
\* the torrent dropped, the tracker deregistered and nothing written to
\* storage.
C36_CancelledDownloadFails ==
    \A c \in Downloads :
        (hpc[c] = "done" /\ hcancelAt[c] \in {"info", "poll"})
           => /\ hres[c].err = "context canceled"
              /\ hhandle[c] # "live"
              /\ ~hactive[c]
              /\ hdisk[c] = NoFile

\* C36, amended: a cancelled context is seen at the select of the metadata
\* wait, when that select takes the Done case, and at the select of a polling
\* turn, which is reached only while the file is incomplete. A download that
\* sees it returns the cancellation error with the torrent dropped, the
\* tracker deregistered and nothing written to storage; a polling download
\* whose file is complete at the next loop test leaves the loop for the read
\* as if it had not been cancelled.
C36_SeenCancellationFails ==
    /\ [](\A c \in Downloads :
            (hpc[c] \in {"complete", "done"} /\ hres[c].err = "context canceled")
               => /\ hctx[c]
                  /\ hhandle[c] # "live"
                  /\ hdisk[c] = NoFile
                  /\ (hpc[c] = "done" => ~hactive[c]))
    /\ [][\A c \in Downloads :
             (hpc[c] = "poll" /\ hctx[c] /\ hpc'[c] # "poll")
                => IF hbytes[c] < FileLength
                   THEN hpc'[c] = "complete" /\ hres'[c].err = "context canceled"
                   ELSE hpc'[c] = "read" /\ hres'[c] = hres[c]]_vars
    /\ [][\A c \in Downloads :
             (hpc[c] = "info" /\ hctx[c] /\ ~GotInfo(c) /\ hpc'[c] # "info")
                => hpc'[c] = "complete" /\ hres'[c].err = "context canceled"]_vars

C36_Witness ==
    \E c \in Downloads :
        /\ hpc[c] = "done" /\ hcancelAt[c] = "poll"
        /\ hres[c].err = "context canceled"
        /\ hhandle[c] = "dropped" /\ ~htorrent.added
        /\ ~hactive[c] /\ hdisk[c] = NoFile

\* C37: two downloads in flight for two files of one torrent both complete
\* with their own file's bytes: as long as a download waits for the metadata
\* or for pieces the torrent behind its handle is in the client, whatever the
\* other download does, and a download whose file has arrived returns the
\* bytes of its file. Stated for runs in which no context is cancelled, the
\* torrent holds both files and no download has failed before.
C37_DropSparesOtherDownload ==
    (\A d \in Downloads : ~hctx[d] /\ (hres[d] = NotCalled \/ hres[d] = Result("nil", d)))
       => \A c \in Downloads :
             /\ hpc[c] \in {"info", "poll"} => hhandle[c] = "live"
             /\ (hpc[c] = "done" /\ hbytes[c] = FileLength) => hres[c] = Result("nil", c)

\* C38: a subscriber is sent a DOWNLOADED event only when the download
\* succeeded: no channel carries one, and no subscriber has read one, when
\* downloadFileInternal returned an error.
C38_DownloadedOnlyOnSuccess ==
    \A x \in Subscribers :
        (\/ got[x].downloaded
         \/ \E k \in 1..Len(chans[x].buf) : chans[x].buf[k].Status = "DOWNLOADED")
           => \A c \in Callers : fnres[c] \notin DownloadErrors

\* C39: while downloadFileInternal runs for the outputFilename, a tracker is
\* registered under that name, and it is the running call's own tracker, not
\* yet completed: the status reads DOWNLOADING and a subscription is given.
C39_TrackerRegisteredWhileDownloading ==
    \A c \in Callers :
        cpc[c] \in {"add", "info", "poll", "read"}
           => /\ active # NoTracker
              /\ active = ctrk[c]
              /\ trk[ctrk[c]].Status = "DOWNLOADING"

\* C40: under every interleaving of update, complete, subscribe and the
\* cleanup on one tracker, two executions sharing the tracker included, no
\* event is sent on a closed channel and no channel is closed twice: no
\* channel operation panics.
C40_NoSendOnClosedChannel ==
    fpanic = "none"

====
